---- MODULE Spec2Model ----
(***************************************************************************)
(* A model of the Linux-compatible DMA pool of NetBSD's drm2 glue          *)
(* (sys/external/bsd/common/linux/linux_dmapool.c).                        *)
(*                                                                         *)
(* Addresses and sizes are counted in abstract bytes; a page is PAGE_SIZE  *)
(* of them.  A pool owns a vmem arena of bus addresses (quantum = align),  *)
(* a red-black tree of segments keyed by the loaded bus address, and the   *)
(* constants block_size, align and boundary.  The arena (vmem) and the     *)
(* bus_dma back end are not part of linux_dmapool.c: the arena is modelled *)
(* from the specification's description of it, the back end as the         *)
(* environment that hands out page-aligned, non-overlapping memory.        *)
(***************************************************************************)
EXTENDS Integers, FiniteSets, Sequences, TLC

(* ------------------------------ bounds -------------------------------- *)

\* Physical pages the back end can hand out: pages 1 .. NumPages.
NumPages == 2
\* Kernel virtual pages the back end can map segments at: 1 .. NumVPages.
NumVPages == 2
\* Pages, physical and virtual, of the host the two threads run on: enough
\* for each thread to get a segment of two pages.
NumThreadPages == 4
\* Smallest and largest block_size a pool is created with.
MinBlockSize == 3
MaxBlockSize == 4
\* align ranges over 2^0 .. 2^MaxAlignShift, boundary over 0 and
\* 2^1 .. 2^MaxBoundaryShift.
MaxAlignShift == 4
MaxBoundaryShift == 2
\* Calls of the import callback after which no further growth is tried.
MaxProviderCalls == 3

(* ------------------------- program constants -------------------------- *)

\* round_page() granularity, in abstract bytes.
PAGE_SIZE == 8
\* The gfp flags a caller may pass; __GFP_ZERO is the only one looked at.
GfpFlags == {"__GFP_ZERO", "GFP_KERNEL"}
\* The ops values callers pass to dma_pool_sync: one PRE operation,
\* and a mix of PRE and POST that the header forbids.
SyncOps == {{"PREWRITE"}, {"PREREAD", "POSTREAD"}}

(* ------------------------------ helpers ------------------------------- *)

pow2[n \in Nat] == IF n = 0 THEN 1 ELSE 2 * pow2[n - 1]

powerof2(x) == \E n \in 0 .. 6 : x = pow2[n]

roundup(x, q) == ((x + q - 1) \div q) * q

round_page(size) == roundup(size, PAGE_SIZE)

Min(S) == CHOOSE x \in S : \A y \in S : x <= y

Max(S) == CHOOSE x \in S : \A y \in S : x >= y

Range(addr, size) == addr .. (addr + size - 1)

VARIABLES
    pool,           \* "none" | "live" | "destroyed", or a stage of create
    block_size,     \* dma_pool::block_size
    align,          \* dma_pool::align (also the arena's quantum)
    boundary,       \* dma_pool::boundary
    busoff,         \* the tag's offset between physical and bus addresses
    psegs,          \* dma_pool::psegs, the tree of struct dma_pool_segment
    spans,          \* the arena's imported spans, [addr, size]
    busy,           \* the arena's allocated boundary tags, [addr, size]
    live,           \* blocks the callers hold, [handle, ptr]
    mem,            \* kernel virtual addresses holding a non-zero byte
    halt,           \* "none", or how the kernel stopped
    nullderef,      \* a field of a NULL segment pointer has been read
    providerCalls,  \* calls of dma_pool_alloc_segment so far
    nsegs,          \* segments created so far (the next segment's id - 1)
    released,       \* ids of segments handed back to the host, as a bag
    issued,         \* handle -> the pointer first returned for it
    last,           \* what the last call did
    pc,             \* per thread: the statement it executes next
    mtx,            \* dma_pool::mtx: its owner, or NoThread
    tl              \* per thread: the locals of the call it is in

\* The state of the threads that run calls statement by statement.
tvars == <<pc, mtx, tl>>

vars == <<pool, block_size, align, boundary, busoff, psegs, spans, busy, live,
          mem, halt, nullderef, providerCalls, nsegs, released, issued,
          last, pc, mtx, tl>>

(* ---------------------------------------------------------------------- *)
(* The arena: vmem_xcreate / vmem_xalloc / vmem_xfree.  Sizes are rounded  *)
(* up to the quantum; free space is the imported spans minus the busy      *)
(* tags; an allocation takes the best-fitting free run.                    *)
(* ---------------------------------------------------------------------- *)

\* Whether [a1, a1+n1) and [a2, a2+n2) share a byte.
Overlap(a1, n1, a2, n2) == a1 < a2 + n2 /\ a2 < a1 + n1

\* Bytes of bus address space covered by a set of [addr, size] records.
Bytes(S) == UNION {Range(r.addr, r.size) : r \in S}

\* The arena's free bytes.
FreeBytes(sp, bz) == Bytes(sp) \ Bytes(bz)

\* Whether [start, start+size) crosses a multiple of nocross.
vmem_cross_p(start, size, nocross) ==
    /\ nocross # 0
    /\ (start \div nocross) # ((start + size - 1) \div nocross)

\* The starts inside span s at which size bytes are free and meet the
\* alignment and the boundary.
vmem_fit(s, bz, size, al, nocross) ==
    {st \in s.addr .. (s.addr + s.size - size) :
        /\ st % al = 0
        /\ ~vmem_cross_p(st, size, nocross)
        /\ \A t \in bz : ~Overlap(st, size, t.addr, t.size)}

\* The first and last+1 byte of the free run of span s that holds st: a
\* run ends at a busy tag or at the end of the span, never beyond it.
vmem_run_lo(s, bz, st) ==
    Max({s.addr} \cup {t.addr + t.size : t \in {u \in bz :
            u.addr >= s.addr /\ u.addr + u.size <= st}})

vmem_run_hi(s, bz, st) ==
    Min({s.addr + s.size} \cup {t.addr : t \in {u \in bz :
            u.addr >= st /\ u.addr < s.addr + s.size}})

\* vmem_xalloc's search with VM_BESTFIT: the smallest free run with a fit
\* (the lowest such run among equals), and the lowest fitting start in it.
\* The result is a set: empty when nothing fits, else one address.
vmem_xalloc_fit(sp, bz, size0, al, nocross, quantum) ==
    LET size == roundup(size0, quantum)
        cand == UNION {{[st |-> st,
                         run |-> vmem_run_hi(s, bz, st) - vmem_run_lo(s, bz, st)] :
                           st \in vmem_fit(s, bz, size, al, nocross)} : s \in sp}
    IN  {c.st : c \in {c \in cand : \A d \in cand :
                          \/ c.run < d.run
                          \/ (c.run = d.run /\ c.st <= d.st)}}

\* The flags the arena hands to its import callback: the caller's choice
\* between sleeping and not.
vmem_import_flags(flags) == flags \cap {"VM_SLEEP", "VM_NOSLEEP"}

\* The busy tag vmem_xalloc records for an allocation of size0 at addr.
vmem_busy_tag(addr, size0, quantum) ==
    [addr |-> addr, size |-> roundup(size0, quantum)]

\* vmem_xfree: the busy tag starting at addr goes back to free space.
vmem_xfree(bz, addr, size0, quantum) ==
    bz \ {vmem_busy_tag(addr, size0, quantum)}


(* ---------------------------------------------------------------------- *)
(* Segments and the segment tree.                                          *)
(* ---------------------------------------------------------------------- *)

\* The NULL segment pointer.
NoSeg == [id |-> 0, size |-> 0, dseg_addr |-> 0, dseg_len |-> 0,
          dm_addr |-> 0, dm_len |-> 0, virt_addr |-> 0]

\* dmam->dm_segs[0].ds_addr: the loaded bus address, the tree's key.
dma_pool_segment_phys_addr(pseg) == pseg.dm_addr

\* rb_tree_find_node_leq under dma_pool_compare_psegs_key: the node with the
\* greatest key <= addr, or NULL.
rb_tree_find_node_leq(tree, addr) ==
    LET le == {n \in tree : dma_pool_segment_phys_addr(n) <= addr}
    IN  IF le = {} THEN NoSeg
        ELSE CHOOSE n \in le : \A m \in le :
                 dma_pool_segment_phys_addr(m) <= dma_pool_segment_phys_addr(n)

\* rb_tree_insert_node under dma_pool_compare_psegs_nodes: a node whose key
\* is already in the tree is not inserted.
rb_tree_insert_node(tree, pseg) ==
    IF \E n \in tree :
           dma_pool_segment_phys_addr(n) = dma_pool_segment_phys_addr(pseg)
    THEN tree
    ELSE tree \cup {pseg}

\* dma_pool_find_segment: "found" with the segment, "panic" for the explicit
\* panic, "null" when the floor lookup returned NULL and the containment
\* test reads pseg->dseg through it.
dma_pool_find_segment(tree, addr) ==
    LET pseg == rb_tree_find_node_leq(tree, addr)
    IN  IF pseg = NoSeg
        THEN [kind |-> "null", seg |-> NoSeg]
        ELSE IF addr >= pseg.dseg_addr /\ addr < pseg.dseg_addr + pseg.dseg_len
        THEN [kind |-> "found", seg |-> pseg]
        ELSE [kind |-> "panic", seg |-> NoSeg]

\* What a read through the NULL segment pointer can lead to: the load
\* traps ("fault"); it yields garbage that fails the containment test
\* ("panic", the explicit one); it yields garbage that passes the test and
\* NULL is returned, which KASSERT(pseg) catches in a DIAGNOSTIC kernel
\* ("kassert") and nothing catches otherwise ("wild").
NullOutcomes == {"fault", "panic", "kassert", "wild"}

\* Variant: the offset of the block inside the segment is dropped.
dma_pool_virt_addr_nooffset(pseg, addr) == pseg.virt_addr

\* The local pointer of bus address addr inside pseg.
dma_pool_virt_addr(pseg, addr) ==
    LET phys_start == dma_pool_segment_phys_addr(pseg)
        offset == addr - phys_start
    IN  pseg.virt_addr + offset

(* ---------------------------------------------------------------------- *)
(* The bus_dma back end (the environment).                                 *)
(* ---------------------------------------------------------------------- *)

PhysPages == 1 .. NumPages
VirtPages == 1 .. NumVPages

\* What bus_dmamap_create .. bus_dmamap_load can answer to a request for
\* size bytes: an error, or page-aligned physical memory and a kernel
\* mapping that no other segment of the pool uses.
BusDmaAnswers(npages, nvpages, tree, size) ==
    {[err |-> "ENOMEM", dseg_addr |-> 0, virt_addr |-> 0, wait |-> w] :
        w \in BOOLEAN}
    \cup
    {[err |-> "", dseg_addr |-> pv[1] * PAGE_SIZE,
      virt_addr |-> pv[2] * PAGE_SIZE, wait |-> pv[3]] :
        pv \in
          {pv \in (1 .. npages) \X (1 .. nvpages) \X BOOLEAN :
              /\ pv[1] * PAGE_SIZE + size <= (npages + 1) * PAGE_SIZE
              /\ pv[2] * PAGE_SIZE + size <= (nvpages + 1) * PAGE_SIZE
              /\ \A n \in tree :
                    /\ ~Overlap(pv[1] * PAGE_SIZE, size, n.dseg_addr, n.dseg_len)
                    /\ ~Overlap(pv[2] * PAGE_SIZE, size, n.virt_addr, n.size)}}

\* The answers of a host with the pages PhysPages and VirtPages.
BusDmaResults(tree, size) == BusDmaAnswers(NumPages, NumVPages, tree, size)

\* A back-end call under bus_dma_flags when the host's answer is res: a
\* host that has to wait for memory (res.wait) makes the caller sleep under
\* BUS_DMA_WAITOK and fails the call at once without it.
bus_dma_call(res, bus_dma_flags) ==
    IF res.wait /\ "BUS_DMA_WAITOK" \notin bus_dma_flags
    THEN [err |-> "ENOMEM", slept |-> FALSE]
    ELSE [err |-> res.err, slept |-> res.wait]

\* Variant: one page more than the request needs.
dma_pool_segment_size_extra_page(size) == round_page(size) + PAGE_SIZE

\* The size dma_pool_alloc_segment asks the back end for.
dma_pool_segment_size(size) == round_page(size)

\* The flags dma_pool_alloc_segment passes to bus_dma for the arena's flags.
dma_pool_alloc_segment_bus_dma_flags(flags) ==
    IF "VM_SLEEP" \in flags THEN {"BUS_DMA_WAITOK"} ELSE {}

\* Variant: the span reported to the arena starts at the raw address
\* dseg.ds_addr instead of the loaded address dm_segs[0].ds_addr.
dma_pool_alloc_segment_rawspan(tree, res, size, id, off, flags) ==
    LET n == round_page(size)
        bus_dma_flags == dma_pool_alloc_segment_bus_dma_flags(flags)
        call == bus_dma_call(res, bus_dma_flags)
        pseg == [id |-> id, size |-> n, dseg_addr |-> res.dseg_addr,
                 dseg_len |-> n, dm_addr |-> res.dseg_addr + off,
                 dm_len |-> n, virt_addr |-> res.virt_addr]
    IN  IF call.err # ""
        THEN [err |-> call.err, pseg |-> NoSeg, tree |-> tree, addr |-> 0,
              actual_size |-> 0, slept |-> call.slept]
        ELSE [err |-> "", pseg |-> pseg,
              tree |-> rb_tree_insert_node(tree, pseg),
              addr |-> pseg.dseg_addr, actual_size |-> pseg.dm_len,
              slept |-> call.slept]

\* Variant: the error path leaves the segment record in the tree.
dma_pool_alloc_segment_leak(tree, res, size, id, off, flags) ==
    LET n == round_page(size)
        bus_dma_flags == dma_pool_alloc_segment_bus_dma_flags(flags)
        call == bus_dma_call(res, bus_dma_flags)
        pseg == [id |-> id, size |-> n, dseg_addr |-> res.dseg_addr,
                 dseg_len |-> n, dm_addr |-> res.dseg_addr + off,
                 dm_len |-> n, virt_addr |-> res.virt_addr]
    IN  IF call.err # ""
        THEN [err |-> call.err, pseg |-> NoSeg,
              tree |-> rb_tree_insert_node(tree, pseg), addr |-> 0,
              actual_size |-> 0, slept |-> call.slept]
        ELSE [err |-> "", pseg |-> pseg,
              tree |-> rb_tree_insert_node(tree, pseg),
              addr |-> pseg.dm_addr, actual_size |-> pseg.dm_len,
              slept |-> call.slept]

\* Variant: the span reported to the arena is a page longer than the
\* segment.
dma_pool_alloc_segment_longspan(tree, res, size, id, off, flags) ==
    LET n == round_page(size)
        bus_dma_flags == dma_pool_alloc_segment_bus_dma_flags(flags)
        call == bus_dma_call(res, bus_dma_flags)
        pseg == [id |-> id, size |-> n, dseg_addr |-> res.dseg_addr,
                 dseg_len |-> n, dm_addr |-> res.dseg_addr + off,
                 dm_len |-> n, virt_addr |-> res.virt_addr]
    IN  IF call.err # ""
        THEN [err |-> call.err, pseg |-> NoSeg, tree |-> tree, addr |-> 0,
              actual_size |-> 0, slept |-> call.slept]
        ELSE [err |-> "", pseg |-> pseg,
              tree |-> rb_tree_insert_node(tree, pseg),
              addr |-> pseg.dm_addr, actual_size |-> pseg.dm_len + PAGE_SIZE,
              slept |-> call.slept]

\* dma_pool_alloc_segment, the arena's import callback, called with the
\* arena's flags: the segment record it builds from the back end's answer
\* res and inserts into the tree, the span it reports, and whether the
\* call slept.  On an error nothing is left behind.
dma_pool_alloc_segment(tree, res, size, id, off, flags) ==
    LET bus_dma_flags == dma_pool_alloc_segment_bus_dma_flags(flags)
        call == bus_dma_call(res, bus_dma_flags)
        pseg == [id |-> id,
                 size |-> dma_pool_segment_size(size),
                 dseg_addr |-> res.dseg_addr,
                 dseg_len |-> dma_pool_segment_size(size),
                 dm_addr |-> res.dseg_addr + off,
                 dm_len |-> dma_pool_segment_size(size),
                 virt_addr |-> res.virt_addr]
    IN  IF call.err # ""
        THEN [err |-> call.err, pseg |-> NoSeg, tree |-> tree, addr |-> 0,
              actual_size |-> 0, slept |-> call.slept]
        ELSE [err |-> "", pseg |-> pseg,
              tree |-> rb_tree_insert_node(tree, pseg),
              addr |-> pseg.dm_addr, actual_size |-> pseg.dm_len,
              slept |-> call.slept]


(* ---------------------------------------------------------------------- *)
(* The pool's operations.                                                  *)
(* ---------------------------------------------------------------------- *)

BlockSizes == MinBlockSize .. MaxBlockSize
Aligns == {pow2[n] : n \in 0 .. MaxAlignShift}
Boundaries == {0} \cup {pow2[n] : n \in 1 .. MaxBoundaryShift}
BadAligns == {al \in 1 .. PAGE_SIZE : ~powerof2(al)}
\* Offsets between a physical address and the bus address it is loaded at.
BusOffsets == {0, PAGE_SIZE, -PAGE_SIZE}
\* Every bus address a caller may pass as a handle.
Handles == 0 .. ((NumPages + 2) * PAGE_SIZE - 1)

\* The threads of the statement-by-statement runs, and no thread.
Threads == {"t1", "t2"}
NoThread == "none"

\* The locals of a thread outside any call: the address vmem_xalloc
\* reserved, the segment record being built, the segment found, the
\* result, whether the call went into the import callback and whether that
\* succeeded, and whether the block has been synchronized; inside
\* dma_pool_alloc_segment, what the function has acquired so far (held) and
\* the release calls of its error path (undo); how often the arena called
\* the import callback for this allocation and how often it searched again.
NoLocals == [addr |-> 0, pseg |-> NoSeg, span |-> [addr |-> 0, size |-> 0],
             seg |-> NoSeg, ret |-> "", handle |-> 0, ptr |-> 0,
             tried |-> FALSE, grew |-> FALSE, synced |-> FALSE,
             held |-> <<>>, undo |-> <<>>, imports |-> 0, retries |-> 0]

\* No span: what *addr and *actual_size hold when the import callback has
\* not reported one.
NoSpan == [addr |-> 0, size |-> 0]

\* What a call did: besides its result, the size the arena asked the import
\* callback for, the span the callback reported and the calls
\* dma_pool_destroy made, in their order.
LastNone == [op |-> "none", ret |-> "", handle |-> 0, ptr |-> 0,
             zero |-> FALSE, calls |-> 0, fit |-> FALSE, segid |-> 0,
             offset |-> 0, len |-> 0, ops |-> {}, reused |-> FALSE,
             wasDirty |-> FALSE, hset |-> FALSE, nowait |-> FALSE,
             mustwait |-> FALSE, slept |-> FALSE, grew |-> FALSE,
             asked |-> 0, span |-> NoSpan, syncs |-> 0, syncops |-> {},
             steps |-> <<>>]

Init ==
    /\ pool = "none"
    /\ block_size = 0
    /\ align = 0
    /\ boundary = 0
    /\ busoff = 0
    /\ psegs = {}
    /\ spans = {}
    /\ busy = {}
    /\ live = {}
    /\ mem = {}
    /\ halt = "none"
    /\ nullderef = FALSE
    /\ providerCalls = 0
    /\ nsegs = 0
    /\ released = <<>>
    /\ issued = {}
    /\ last = LastNone
    /\ pc = [t \in Threads |-> "idle"]
    /\ mtx = NoThread
    /\ tl = [t \in Threads |-> NoLocals]

\* The pool exists, the kernel runs, and no call is in progress.
Running == pool = "live" /\ halt = "none" /\ last.op = "none"

\* Variant: the pool is created with a first segment already imported.
dma_pool_create_eager(bs, al, bd, off, diagnostic) ==
    /\ pool = "none"
    /\ halt = "none"
    /\ pool' = "live"
    /\ block_size' = bs
    /\ align' = al
    /\ boundary' = bd
    /\ busoff' = off
    /\ psegs' = {[id |-> 1, size |-> PAGE_SIZE, dseg_addr |-> PAGE_SIZE,
                  dseg_len |-> PAGE_SIZE, dm_addr |-> PAGE_SIZE + off,
                  dm_len |-> PAGE_SIZE, virt_addr |-> PAGE_SIZE]}
    /\ spans' = {[addr |-> PAGE_SIZE + off, size |-> PAGE_SIZE]}
    /\ busy' = {}
    /\ providerCalls' = 1
    /\ nsegs' = 1
    /\ last' = [LastNone EXCEPT !.op = "create", !.ret = "ok"]
    /\ UNCHANGED <<live, mem, halt, nullderef, released, issued>>

\* dma_pool_create(name, dmat, block_size, align, boundary): the arena is
\* created empty with quantum align, the tree empty.  dmat decides busoff.
\* KASSERT(powerof2(align)) stops a DIAGNOSTIC kernel and is no code at all
\* in any other.
dma_pool_create(bs, al, bd, off, diagnostic) ==
    /\ pool = "none"
    /\ halt = "none"
    /\ IF diagnostic /\ ~powerof2(al)
       THEN /\ halt' = "kassert"
            /\ last' = [LastNone EXCEPT !.op = "create", !.ret = "kassert"]
            /\ UNCHANGED <<pool, block_size, align, boundary, busoff, psegs,
                           spans, busy>>
       ELSE /\ pool' = "live"
            /\ block_size' = bs
            /\ align' = al
            /\ boundary' = bd
            /\ busoff' = off
            /\ psegs' = {}
            /\ spans' = {}
            /\ busy' = {}
            /\ last' = [LastNone EXCEPT !.op = "create", !.ret = "ok"]
            /\ UNCHANGED halt
    /\ UNCHANGED <<live, mem, nullderef, providerCalls, nsegs, released,
                   issued>>

\* Variant: the boundary is not passed on.
dma_pool_alloc_args_noboundary ==
    [size |-> block_size, align |-> align, nocross |-> 0]

\* Variant: room for a header is added to every block.
dma_pool_alloc_args_header ==
    [size |-> block_size + 1, align |-> align, nocross |-> boundary]

\* The arguments dma_pool_alloc passes to vmem_xalloc.
dma_pool_alloc_args ==
    [size |-> block_size, align |-> align, nocross |-> boundary]

\* Variant: the reservation sleeps only when the caller's flags allow it.
dma_pool_alloc_flags_gfp(gfp) ==
    {"VM_BESTFIT"} \cup
    (IF "GFP_KERNEL" \in gfp THEN {"VM_SLEEP"} ELSE {"VM_NOSLEEP"})

\* The flags dma_pool_alloc passes to vmem_xalloc, whatever gfp is.
dma_pool_alloc_flags(gfp) == {"VM_BESTFIT", "VM_SLEEP"}

\* Variant: one byte past the block is cleared too.
dma_pool_alloc_memset_long(gfp, virt_addr) ==
    IF "__GFP_ZERO" \in gfp THEN Range(virt_addr, block_size + 1) ELSE {}

\* Variant: the last byte of the block is not cleared.
dma_pool_alloc_memset_short(gfp, virt_addr) ==
    IF "__GFP_ZERO" \in gfp THEN Range(virt_addr, block_size - 1) ELSE {}

\* The bytes dma_pool_alloc clears at virt_addr for the flags gfp.
dma_pool_alloc_memset(gfp, virt_addr) ==
    IF "__GFP_ZERO" \in gfp THEN Range(virt_addr, block_size) ELSE {}

\* dma_pool_alloc(pool, gfp, handle), called as fn ("alloc" or "zalloc").
\* res is the back end's answer should the arena import a segment.
dma_pool_alloc_as(fn, gfp, res) ==
    /\ Running
    /\ \E a \in {dma_pool_alloc_args} :
       \E fit0 \in {vmem_xalloc_fit(spans, busy, a.size, a.align, a.nocross,
                                    align)} :
       \E imp \in {dma_pool_alloc_segment(psegs, res, roundup(a.size, align),
                                          nsegs + 1, busoff,
                                          vmem_import_flags(
                                              dma_pool_alloc_flags(gfp)))} :
       \E hadFit \in {vmem_xalloc_fit(spans, busy, block_size, align, boundary,
                                       align) # {}} :
       LET grow == fit0 = {}
           imported == grow /\ imp.err = ""
           psegs1 == IF grow THEN imp.tree ELSE psegs
           spans1 == IF imported
                     THEN spans \cup
                          {[addr |-> imp.addr, size |-> imp.actual_size]}
                     ELSE spans
           \* bus_dmamem_alloc does not clear the memory: it holds garbage
           mem1 == IF imported
                   THEN mem \cup Range(imp.pseg.virt_addr, imp.pseg.size)
                   ELSE mem
           l0 == [LastNone EXCEPT !.op = fn, !.zero = "__GFP_ZERO" \in gfp,
                                  !.calls = IF grow THEN 1 ELSE 0,
                                  !.fit = hadFit,
                                  !.nowait = "GFP_KERNEL" \notin gfp,
                                  !.mustwait = grow /\ res.wait,
                                  !.slept = grow /\ imp.slept,
                                  !.grew = imported,
                                  !.asked = IF grow
                                            THEN roundup(a.size, align)
                                            ELSE 0,
                                  !.span = IF imported
                                           THEN [addr |-> imp.addr,
                                                 size |-> imp.actual_size]
                                           ELSE NoSpan]
       IN
       /\ grow => providerCalls < MaxProviderCalls
       /\ psegs' = psegs1
       /\ spans' = spans1
       /\ providerCalls' = providerCalls + (IF grow THEN 1 ELSE 0)
       /\ nsegs' = nsegs + (IF imported THEN 1 ELSE 0)
       /\ \E fit1 \in {IF ~grow THEN fit0
                       ELSE IF imported
                       THEN vmem_xalloc_fit(spans1, busy, a.size, a.align,
                                            a.nocross, align)
                       ELSE {}} :
          IF fit1 = {}
          THEN \* vmem_xalloc failed: return NULL
               /\ last' = [l0 EXCEPT !.ret = "NULL"]
               /\ mem' = mem1
               /\ UNCHANGED <<busy, live, halt, nullderef, issued>>
          ELSE \E addr \in fit1 :
               \E f \in {dma_pool_find_segment(psegs1, addr)} :
               \E virt_addr \in {dma_pool_virt_addr(f.seg, addr)} :
               /\ busy' = busy \cup {vmem_busy_tag(addr, a.size, align)}
               /\ CASE f.kind = "found" ->
                       /\ mem' = mem1 \ dma_pool_alloc_memset(gfp, virt_addr)
                       /\ live' = live \cup
                                  {[handle |-> addr, ptr |-> virt_addr]}
                       /\ issued' = IF \E i \in issued : i.handle = addr
                                    THEN issued
                                    ELSE issued \cup
                                         {[handle |-> addr, ptr |-> virt_addr]}
                       /\ last' = [l0 EXCEPT
                              !.ret = "ok", !.handle = addr, !.ptr = virt_addr,
                              !.hset = TRUE, !.segid = f.seg.id,
                              !.reused = \E i \in issued : i.handle = addr,
                              !.wasDirty =
                                  Range(virt_addr, block_size) \cap mem1 # {}]
                       /\ UNCHANGED <<halt, nullderef>>
                    [] f.kind = "panic" ->
                       /\ halt' = "panic"
                       /\ last' = [l0 EXCEPT !.ret = "panic", !.handle = addr]
                       /\ mem' = mem1
                       /\ UNCHANGED <<live, nullderef, issued>>
                    [] f.kind = "null" ->
                       /\ halt' \in NullOutcomes
                       /\ nullderef' = TRUE
                       /\ last' = [l0 EXCEPT !.ret = halt', !.handle = addr]
                       /\ mem' = mem1
                       /\ UNCHANGED <<live, issued>>
    /\ UNCHANGED <<pool, block_size, align, boundary, busoff, released>>

\* The back end's possible answers to this call; a single unused answer
\* when the arena does not need to grow.
ImportAnswers ==
    IF vmem_xalloc_fit(spans, busy, block_size, align, boundary, align) # {}
    THEN {[err |-> "ENOMEM", dseg_addr |-> 0, virt_addr |-> 0,
           wait |-> FALSE]}
    ELSE BusDmaResults(psegs,
                       dma_pool_segment_size(roundup(block_size, align)))

dma_pool_alloc(gfp, res) == dma_pool_alloc_as("alloc", gfp, res)

\* dma_pool_zalloc(pool, gfp, handle)
dma_pool_zalloc(gfp, res) ==
    dma_pool_alloc_as("zalloc", gfp \cup {"__GFP_ZERO"}, res)

\* Variant: a segment whose last block is freed is handed back to the host.
dma_pool_free_shrinking(vaddr, handle) ==
    LET own == {n \in psegs : handle >= n.dm_addr /\ handle < n.dm_addr + n.dm_len}
        rest == {b \in live : b.handle # handle}
        empty == {n \in own : \A b \in rest :
                     ~(b.handle >= n.dm_addr /\ b.handle < n.dm_addr + n.dm_len)}
    IN
    /\ Running
    /\ \E b \in live : b.handle = handle
    /\ busy' = vmem_xfree(busy, handle, block_size, align)
    /\ live' = rest
    /\ psegs' = psegs \ empty
    /\ spans' = {sp \in spans : \A n \in empty : sp.addr # n.dm_addr}
    /\ last' = [LastNone EXCEPT !.op = "free", !.handle = handle,
                                !.ptr = vaddr]
    /\ UNCHANGED <<pool, block_size, align, boundary, busoff, mem, halt,
                   nullderef, providerCalls, nsegs, released, issued>>

\* Variant: the block is cleared when it is freed.
dma_pool_free_zeroing(vaddr, handle) ==
    /\ Running
    /\ \E b \in live : b.handle = handle
    /\ busy' = vmem_xfree(busy, handle, block_size, align)
    /\ live' = {b \in live : b.handle # handle}
    /\ mem' = mem \ Range(vaddr, block_size)
    /\ last' = [LastNone EXCEPT !.op = "free", !.handle = handle,
                                !.ptr = vaddr]
    /\ UNCHANGED <<pool, block_size, align, boundary, busoff, psegs, spans,
                   halt, nullderef, providerCalls, nsegs, released, issued>>

\* Variant: the size of the block and its bookkeeping is released.
dma_pool_free_wrongsize(vaddr, handle) ==
    /\ Running
    /\ \E b \in live : b.handle = handle
    /\ busy' = vmem_xfree(busy, handle, block_size + align, align)
    /\ live' = {b \in live : b.handle # handle}
    /\ last' = [LastNone EXCEPT !.op = "free", !.handle = handle,
                                !.ptr = vaddr]
    /\ UNCHANGED <<pool, block_size, align, boundary, busoff, psegs, spans,
                   mem, halt, nullderef, providerCalls, nsegs, released,
                   issued>>

\* Variant: the block to free is found by its pointer.
dma_pool_free_result_byptr(vaddr, handle) ==
    [busy |-> {t \in busy :
                  \A b \in live : ~(b.ptr = vaddr /\ b.handle = t.addr)},
     live |-> {b \in live : b.ptr # vaddr}]

\* What dma_pool_free(pool, vaddr, handle) leaves of the arena's busy tags
\* and of the blocks the callers hold: line 310, vaddr is __unused.
dma_pool_free_result(vaddr, handle) ==
    [busy |-> vmem_xfree(busy, handle, block_size, align),
     live |-> {b \in live : b.handle # handle}]

\* dma_pool_free(pool, vaddr, handle) with any pointer and any bus address:
\* the function looks nothing up and tests nothing but pool.
dma_pool_free_any(vaddr, handle) ==
    /\ Running
    /\ busy' = dma_pool_free_result(vaddr, handle).busy
    /\ live' = dma_pool_free_result(vaddr, handle).live
    /\ last' = [LastNone EXCEPT !.op = "free", !.handle = handle,
                                !.ptr = vaddr]
    /\ UNCHANGED <<pool, block_size, align, boundary, busoff, psegs, spans,
                   mem, halt, nullderef, providerCalls, nsegs, released,
                   issued>>

\* dma_pool_free(pool, vaddr, handle) of a block the caller holds.
dma_pool_free(vaddr, handle) ==
    /\ \E b \in live : b.handle = handle
    /\ dma_pool_free_any(vaddr, handle)

\* Variant: the whole segment is synchronized.
dma_pool_sync_args_segment(pseg, handle, ops) ==
    [segid |-> pseg.id, offset |-> 0, len |-> pseg.size, ops |-> ops]

\* The arguments dma_pool_sync passes to bus_dmamap_sync for the segment
\* found: its map, the offset of the handle in it, block_size and ops.
dma_pool_sync_args(pseg, handle, ops) ==
    LET phys_start == dma_pool_segment_phys_addr(pseg)
        offset == handle - phys_start
    IN  [segid |-> pseg.id, offset |-> offset, len |-> block_size,
         ops |-> ops]

\* dma_pool_sync(pool, handle, ops) with any bus address as the handle.
dma_pool_sync(handle, ops) ==
    LET f == dma_pool_find_segment(psegs, handle)
        args == dma_pool_sync_args(f.seg, handle, ops)
    IN
    /\ Running
    /\ CASE f.kind = "found" ->
            /\ last' = [LastNone EXCEPT !.op = "sync", !.ret = "synced",
                          !.handle = handle, !.segid = args.segid,
                          !.offset = args.offset, !.len = args.len,
                          !.ops = ops, !.syncs = 1, !.syncops = args.ops]
            /\ UNCHANGED <<halt, nullderef>>
         [] f.kind = "panic" ->
            /\ halt' = "panic"
            /\ last' = [LastNone EXCEPT !.op = "sync", !.ret = "panic",
                          !.handle = handle, !.ops = ops]
            /\ UNCHANGED nullderef
         [] f.kind = "null" ->
            /\ halt' \in NullOutcomes
            /\ nullderef' = TRUE
            /\ last' = [LastNone EXCEPT !.op = "sync",
                          !.ret = IF halt' = "wild" THEN "synced" ELSE halt',
                          !.handle = handle, !.ops = ops]
    /\ UNCHANGED <<pool, block_size, align, boundary, busoff, psegs, spans,
                   busy, live, mem, providerCalls, nsegs, released, issued>>

\* Variant: the walk starts at the second node of the tree.
RECURSIVE dma_pool_destroy_order_skipfirst(_)
dma_pool_destroy_order_skipfirst(tree) ==
    IF tree = {} THEN <<>>
    ELSE LET n == CHOOSE x \in tree : \A y \in tree :
                      dma_pool_segment_phys_addr(x) <=
                      dma_pool_segment_phys_addr(y)
             rest == tree \ {n}
         IN  IF rest = {} THEN <<>>
             ELSE LET m == CHOOSE x \in rest : \A y \in rest :
                               dma_pool_segment_phys_addr(x) <=
                               dma_pool_segment_phys_addr(y)
                  IN  <<m>> \o dma_pool_destroy_order_skipfirst(rest)

\* The segments dma_pool_destroy hands to dma_pool_free_segment, in the
\* order RB_TREE_FOREACH_SAFE visits them (ascending key).
RECURSIVE dma_pool_destroy_order(_)
dma_pool_destroy_order(tree) ==
    IF tree = {} THEN <<>>
    ELSE LET n == CHOOSE x \in tree : \A y \in tree :
                      dma_pool_segment_phys_addr(x) <=
                      dma_pool_segment_phys_addr(y)
         IN  <<n>> \o dma_pool_destroy_order(tree \ {n})

\* dma_pool_free_segment: the segment's memory goes back to the host.
dma_pool_free_segment(rel, pseg) == Append(rel, pseg.id)

RECURSIVE ReleaseAll(_, _)
ReleaseAll(rel, order) ==
    IF order = <<>> THEN rel
    ELSE ReleaseAll(dma_pool_free_segment(rel, Head(order)), Tail(order))

\* A call dma_pool_destroy makes; id is the segment it is made on.
DestroyStep(call, id) == [call |-> call, id |-> id]

\* The pool's own bookkeeping, discarded at lines 254-256.
DestroyBookkeeping ==
    <<DestroyStep("mutex_destroy", 0), DestroyStep("vmem_destroy", 0),
      DestroyStep("kmem_free", 0)>>

\* The segments of order, each handed to dma_pool_free_segment.
DestroySegments(order) ==
    [i \in 1 .. Len(order) |->
        DestroyStep("dma_pool_free_segment", order[i].id)]

\* Variant: the bookkeeping is discarded before the segments are released.
dma_pool_destroy_steps_bookkeeping_first(tree) ==
    DestroyBookkeeping \o DestroySegments(dma_pool_destroy_order(tree))

\* The calls of dma_pool_destroy, lines 250-256, in their order.
dma_pool_destroy_steps(tree) ==
    DestroySegments(dma_pool_destroy_order(tree)) \o DestroyBookkeeping

\* dma_pool_destroy(pool)
dma_pool_destroy ==
    /\ Running
    /\ released' = ReleaseAll(released, dma_pool_destroy_order(psegs))
    /\ pool' = "destroyed"
    /\ psegs' = {}
    /\ spans' = {}
    /\ busy' = {}
    /\ live' = {}
    /\ mem' = {}
    /\ issued' = {}
    /\ last' = [LastNone EXCEPT !.op = "destroy",
                                !.steps = dma_pool_destroy_steps(psegs)]
    /\ UNCHANGED <<block_size, align, boundary, busoff, halt, nullderef,
                   providerCalls, nsegs>>

\* A caller (or the device) fills a block it holds with non-zero bytes.
WriteBlock(b) ==
    /\ Running
    /\ b \in live
    /\ ~(Range(b.ptr, block_size) \subseteq mem)
    /\ mem' = mem \cup Range(b.ptr, block_size)
    /\ last' = [LastNone EXCEPT !.op = "write", !.handle = b.handle,
                                !.ptr = b.ptr]
    /\ UNCHANGED <<pool, block_size, align, boundary, busoff, psegs, spans,
                   busy, live, halt, nullderef, providerCalls, nsegs,
                   released, issued>>

\* The caller takes the result of the call that just returned.
Return ==
    /\ halt = "none"
    /\ last.op # "none"
    /\ last' = LastNone
    /\ UNCHANGED <<pool, block_size, align, boundary, busoff, psegs, spans,
                   busy, live, mem, halt, nullderef, providerCalls, nsegs,
                   released, issued>>
    /\ UNCHANGED tvars

\* dma_pool_create by a caller that keeps to power-of-two alignments.
Create ==
    /\ pool = "none"
    /\ \E bs \in BlockSizes, al \in Aligns, bd \in Boundaries,
          off \in BusOffsets :
            dma_pool_create(bs, al, bd, off, TRUE)
    /\ UNCHANGED tvars

\* dma_pool_create with an alignment that is not a power of two, on a
\* kernel built with or without DIAGNOSTIC.
CreateBadAlign ==
    /\ pool = "none"
    /\ \E bs \in BlockSizes, al \in BadAligns, bd \in Boundaries,
          off \in BusOffsets, diagnostic \in BOOLEAN :
            dma_pool_create(bs, al, bd, off, diagnostic)
    /\ UNCHANGED tvars

Alloc ==
    /\ Running
    /\ \E gfp \in {{}, {"GFP_KERNEL"}}, res \in ImportAnswers :
          dma_pool_alloc(gfp, res)
    /\ UNCHANGED tvars

AllocZero ==
    /\ Running
    /\ \E res \in ImportAnswers : dma_pool_alloc({"__GFP_ZERO"}, res)
    /\ UNCHANGED tvars

Zalloc ==
    /\ Running
    /\ \E res \in ImportAnswers : dma_pool_zalloc({}, res)
    /\ UNCHANGED tvars

Free ==
    /\ Running
    /\ \E b \in live : dma_pool_free(b.ptr, b.handle)
    /\ UNCHANGED tvars

\* The pointers a caller may pass to dma_pool_free: NULL and the pointers of
\* the blocks held.
FreeVaddrs == {0} \cup {b.ptr : b \in live}

\* dma_pool_free by callers that pass any bus address and any pointer.
FreeAny ==
    /\ Running
    /\ \E h \in Handles, vaddr \in FreeVaddrs : dma_pool_free_any(vaddr, h)
    /\ UNCHANGED tvars

Sync ==
    /\ Running
    /\ \E h \in Handles, ops \in SyncOps : dma_pool_sync(h, ops)
    /\ UNCHANGED tvars

Destroy == dma_pool_destroy /\ UNCHANGED tvars

Write ==
    /\ Running
    /\ \E b \in live : WriteBlock(b)
    /\ UNCHANGED tvars

\* Allocation, release and teardown.  The flags of an allocation play no
\* part in where the block is placed, and dma_pool_sync changes nothing of
\* the pool: zeroing allocations and writes are left to SpecMem, lookups by
\* arbitrary handles to SpecSync.
Next ==
    \/ Create
    \/ Alloc
    \/ Free
    \/ Destroy
    \/ Return

Spec == Init /\ [][Next]_vars

\* The contents of the blocks: allocations with and without __GFP_ZERO,
\* dma_pool_zalloc, and callers writing to the blocks they hold.
NextMem ==
    \/ Create
    \/ Alloc
    \/ AllocZero
    \/ Zalloc
    \/ Free
    \/ Write
    \/ Destroy
    \/ Return

SpecMem == Init /\ [][NextMem]_vars

\* The segment index under lookups by arbitrary handles.
NextSync ==
    \/ Create
    \/ Alloc
    \/ Free
    \/ Sync
    \/ Destroy
    \/ Return

SpecSync == Init /\ [][NextSync]_vars

\* Pools created by callers that do not keep to power-of-two alignments.
NextBadAlign ==
    \/ Create
    \/ CreateBadAlign
    \/ Alloc
    \/ Free
    \/ Destroy
    \/ Return

SpecBadAlign == Init /\ [][NextBadAlign]_vars

\* Callers that free what they do not hold, or with a pointer that is not
\* the block's.
NextFree ==
    \/ Create
    \/ Alloc
    \/ FreeAny
    \/ Return

SpecFree == Init /\ [][NextFree]_vars

\* The answers of a host that does not keep its segments apart: memory of
\* NumThreadPages pages, handed out whether or not a segment of the pool
\* already has it.
FaultyAnswers ==
    IF vmem_xalloc_fit(spans, busy, block_size, align, boundary, align) # {}
    THEN {[err |-> "ENOMEM", dseg_addr |-> 0, virt_addr |-> 0,
           wait |-> FALSE]}
    ELSE {r \in BusDmaAnswers(NumThreadPages, NumThreadPages, {},
                              dma_pool_segment_size(
                                  roundup(block_size, align))) :
             ~r.wait /\ r.virt_addr = r.dseg_addr}

\* dma_pool_alloc on such a host.
AllocFaultyHost ==
    /\ Running
    /\ \E res \in FaultyAnswers : dma_pool_alloc({}, res)
    /\ UNCHANGED tvars

\* Pools on a host whose bus_dma hands out overlapping memory.
NextFaultyHost ==
    \/ Create
    \/ AllocFaultyHost
    \/ Free
    \/ Return

SpecFaultyHost == Init /\ [][NextFaultyHost]_vars

(* ---------------------------------------------------------------------- *)
(* The calls run statement by statement by two threads.  A label is the    *)
(* statement the thread executes next.  The arena's own search and         *)
(* bookkeeping are atomic steps (vmem has a lock of its own); its import   *)
(* callback runs outside that lock.                                        *)
(* ---------------------------------------------------------------------- *)

\* The statements of dma_pool_alloc_segment that call the backing store.
ProviderLabels ==
    {"kmem_alloc", "bus_dmamap_create", "bus_dmamem_alloc", "bus_dmamem_map",
     "bus_dmamap_load"}

\* The statements executed between mutex_spin_enter and mutex_spin_exit.
LockedLabels ==
    {"insert", "insert_exit", "find", "find_exit", "sync_find", "sync_exit"}

ThreadRunning(t) == pool = "live" /\ halt = "none" /\ last.op = "none"

Goto(t, label) == pc' = [pc EXCEPT ![t] = label]

\* Segments other threads have got from the host and not given back.
Pending(t) ==
    {tl[u].pseg : u \in {v \in Threads \ {t} : pc[v] # "import_failed"}}
        \ {NoSeg}

\* What the host can answer a thread: memory no segment of the pool and no
\* other thread has, mapped at the page of the same number.
ThreadAnswers(t) ==
    {r \in BusDmaAnswers(NumThreadPages, NumThreadPages,
                         psegs \cup Pending(t),
                         dma_pool_segment_size(roundup(block_size, align))) :
        ~r.wait /\ r.virt_addr = r.dseg_addr}

\* dma_pool_alloc, line 268: vmem_xalloc searches the free space; without
\* a fit it goes into the import callback.
t_vmem_xalloc(t) ==
    /\ ThreadRunning(t)
    /\ pc[t] = "idle"
    /\ tl[t].ret = ""
    /\ \E a \in {dma_pool_alloc_args} :
       \E fit \in {vmem_xalloc_fit(spans, busy, a.size, a.align, a.nocross,
                                   align)} :
          IF fit # {}
          THEN \E addr \in fit :
               /\ busy' = busy \cup {vmem_busy_tag(addr, a.size, align)}
               /\ tl' = [tl EXCEPT ![t].addr = addr]
               /\ Goto(t, "find_enter")
               /\ UNCHANGED providerCalls
          ELSE /\ providerCalls < MaxProviderCalls
               /\ providerCalls' = providerCalls + 1
               /\ tl' = [tl EXCEPT ![t].tried = TRUE,
                                   ![t].imports = tl[t].imports + 1]
               /\ Goto(t, "kmem_alloc")
               /\ UNCHANGED busy
    /\ UNCHANGED <<pool, block_size, align, boundary, busoff, psegs, spans,
                   live, mem, halt, nullderef, nsegs, released, issued, last,
                   mtx>>

\* The flags the arena calls dma_pool_alloc_segment with.
ThreadImportFlags == vmem_import_flags(dma_pool_alloc_flags({}))

\* Variant: the mutex is taken before the segment record is allocated.
t_kmem_alloc_locked(t) ==
    /\ ThreadRunning(t)
    /\ pc[t] = "kmem_alloc"
    /\ mtx = NoThread
    /\ mtx' = t
    /\ Goto(t, "bus_dmamap_create")
    /\ UNCHANGED <<pool, block_size, align, boundary, busoff, psegs, spans,
                   busy, live, mem, halt, nullderef, providerCalls, nsegs,
                   released, issued, last, tl>>

\* dma_pool_alloc_segment, lines 123-126: kmem_alloc of the segment record.
\* Under KM_SLEEP it cannot fail; under KM_NOSLEEP a failure returns ENOMEM
\* with nothing to release.
t_kmem_alloc(t) ==
    /\ ThreadRunning(t)
    /\ pc[t] = "kmem_alloc"
    /\ \E ok \in (IF "VM_SLEEP" \in ThreadImportFlags
                  THEN {TRUE} ELSE BOOLEAN) :
          IF ok
          THEN /\ tl' = [tl EXCEPT ![t].held = <<"pseg">>]
               /\ Goto(t, "bus_dmamap_create")
          ELSE /\ tl' = [tl EXCEPT ![t].undo = <<>>]
               /\ Goto(t, "import_failed")
    /\ UNCHANGED <<pool, block_size, align, boundary, busoff, psegs, spans,
                   busy, live, mem, halt, nullderef, providerCalls, nsegs,
                   released, issued, last, mtx>>

\* A back-end call that holds no memory of its own: it succeeds, and the
\* function holds what the call made, or it fails.
t_bus_dma_step(t, label, next, what) ==
    /\ ThreadRunning(t)
    /\ pc[t] = label
    /\ \E ok \in BOOLEAN :
          IF ok
          THEN /\ tl' = [tl EXCEPT ![t].held = Append(tl[t].held, what)]
               /\ Goto(t, next)
          ELSE /\ Goto(t, "err")
               /\ UNCHANGED tl
    /\ UNCHANGED <<pool, block_size, align, boundary, busoff, psegs, spans,
                   busy, live, mem, halt, nullderef, providerCalls, nsegs,
                   released, issued, last, mtx>>

\* Lines 134-138: created.
t_bus_dmamap_create(t) ==
    t_bus_dma_step(t, "bus_dmamap_create", "bus_dmamem_alloc", "dmam")

\* Line 141: the host hands out the memory of the segment.
t_bus_dmamem_alloc(t) ==
    /\ ThreadRunning(t)
    /\ pc[t] = "bus_dmamem_alloc"
    /\ \E res \in ThreadAnswers(t) :
       \E imp \in {dma_pool_alloc_segment(psegs, res,
                                          roundup(block_size, align),
                                          nsegs + 1, busoff,
                                          ThreadImportFlags)} :
          IF imp.err = ""
          THEN /\ tl' = [tl EXCEPT ![t].pseg = imp.pseg,
                                   ![t].span = [addr |-> imp.addr,
                                                size |-> imp.actual_size],
                                   ![t].held = Append(tl[t].held, "dseg")]
               /\ nsegs' = nsegs + 1
               /\ Goto(t, "bus_dmamem_map")
          ELSE /\ Goto(t, "err")
               /\ UNCHANGED <<tl, nsegs>>
    /\ UNCHANGED <<pool, block_size, align, boundary, busoff, psegs, spans,
                   busy, live, mem, halt, nullderef, providerCalls, released,
                   issued, last, mtx>>

\* Lines 148-152: mapped.
t_bus_dmamem_map(t) ==
    t_bus_dma_step(t, "bus_dmamem_map", "bus_dmamap_load", "kva")

\* Lines 154-159: loaded.
t_bus_dmamap_load(t) ==
    t_bus_dma_step(t, "bus_dmamap_load", "insert_enter", "load")

\* Whether the function holds what, i.e. the flags created, allocated,
\* mapped and loaded of lines 131-132.
Holds(held, what) == \E i \in 1 .. Len(held) : held[i] = what

\* A release call and the resource it is handed.
Release(call, arg) == [call |-> call, arg |-> arg]

\* The calls of the error path, lines 174-184, in their order.
\* bus_dmamem_unmap is handed &pseg->virt_addr, the address of the field
\* inside the segment record, where dma_pool_free_segment (line 191) hands
\* the mapping itself, pseg->virt_addr.
dma_pool_alloc_segment_undo(held) ==
    (IF Holds(held, "load")
     THEN <<Release("bus_dmamap_unload", "load")>> ELSE <<>>) \o
    (IF Holds(held, "kva")
     THEN <<Release("bus_dmamem_unmap", "pseg")>> ELSE <<>>) \o
    (IF Holds(held, "dseg")
     THEN <<Release("bus_dmamem_free", "dseg")>> ELSE <<>>) \o
    (IF Holds(held, "dmam")
     THEN <<Release("bus_dmamap_destroy", "dmam")>> ELSE <<>>) \o
    <<Release("kmem_free", "pseg")>>

\* The calls of undo that run when unmapping a range that is no mapping
\* stops the kernel: those up to that call.
UndoUntilWild(undo) ==
    IF \E i \in 1 .. Len(undo) :
          undo[i] = Release("bus_dmamem_unmap", "pseg")
    THEN SubSeq(undo, 1,
                CHOOSE i \in 1 .. Len(undo) :
                    undo[i] = Release("bus_dmamem_unmap", "pseg"))
    ELSE undo

\* Lines 174-184: what was got from the host is given back and the error
\* is returned to the arena. Unmapping the record's address in place of
\* the mapping is undefined: the back end stops the kernel, or unmaps
\* whatever is there and the function goes on.
t_err(t) ==
    /\ ThreadRunning(t)
    /\ pc[t] = "err"
    /\ \E all \in {dma_pool_alloc_segment_undo(tl[t].held)} :
       \E undo \in {all, UndoUntilWild(all)} :
          /\ tl' = [tl EXCEPT ![t].undo = undo, ![t].span = NoLocals.span]
          /\ halt' = IF undo = all THEN halt ELSE "panic"
          /\ released' =
                IF \E i \in 1 .. Len(undo) : undo[i].call = "bus_dmamem_free"
                THEN dma_pool_free_segment(released, tl[t].pseg)
                ELSE released
    /\ Goto(t, "import_failed")
    /\ UNCHANGED <<pool, block_size, align, boundary, busoff, psegs, spans,
                   busy, live, mem, nullderef, providerCalls, nsegs,
                   issued, last, mtx>>

\* Line 272: the import failed, so vmem_xalloc fails and dma_pool_alloc
\* returns NULL.
t_import_failed(t) ==
    /\ ThreadRunning(t)
    /\ pc[t] = "import_failed"
    /\ tl' = [tl EXCEPT ![t].pseg = NoSeg, ![t].ret = "NULL",
                        ![t].held = <<>>, ![t].undo = <<>>]
    /\ Goto(t, "done")
    /\ UNCHANGED <<pool, block_size, align, boundary, busoff, psegs, spans,
                   busy, live, mem, halt, nullderef, providerCalls, nsegs,
                   released, issued, last, mtx>>

\* mutex_spin_enter(&pool->mtx) at lines 167, 278 and 318.
t_mutex_spin_enter(t, label, next) ==
    /\ ThreadRunning(t)
    /\ pc[t] = label
    /\ mtx = NoThread
    /\ mtx' = t
    /\ Goto(t, next)
    /\ UNCHANGED <<pool, block_size, align, boundary, busoff, psegs, spans,
                   busy, live, mem, halt, nullderef, providerCalls, nsegs,
                   released, issued, last, tl>>

\* mutex_spin_exit(&pool->mtx) at lines 169, 282 and 322.
t_mutex_spin_exit(t, label, next) ==
    /\ ThreadRunning(t)
    /\ pc[t] = label
    /\ mtx' = NoThread
    /\ Goto(t, next)
    /\ UNCHANGED <<pool, block_size, align, boundary, busoff, psegs, spans,
                   busy, live, mem, halt, nullderef, providerCalls, nsegs,
                   released, issued, last, tl>>

t_insert_enter(t) == t_mutex_spin_enter(t, "insert_enter", "insert")

\* Line 168: rb_tree_insert_node.
t_insert(t) ==
    /\ ThreadRunning(t)
    /\ pc[t] = "insert"
    /\ psegs' = rb_tree_insert_node(psegs, tl[t].pseg)
    /\ mem' = mem \cup Range(tl[t].pseg.virt_addr, tl[t].pseg.size)
    /\ Goto(t, "insert_exit")
    /\ UNCHANGED <<pool, block_size, align, boundary, busoff, spans, busy,
                   live, halt, nullderef, providerCalls, nsegs, released,
                   issued, last, mtx, tl>>

t_insert_exit(t) == t_mutex_spin_exit(t, "insert_exit", "import_return")

\* Variant: the arena adds the first half of the reported span only.
t_import_return_halfspan(t) ==
    /\ ThreadRunning(t)
    /\ pc[t] = "import_return"
    /\ spans' = spans \cup {[addr |-> tl[t].span.addr,
                              size |-> tl[t].span.size \div 2]}
    /\ tl' = [tl EXCEPT ![t].grew = TRUE, ![t].held = <<>>]
    /\ Goto(t, "retry")
    /\ UNCHANGED <<pool, block_size, align, boundary, busoff, psegs, busy,
                   live, mem, halt, nullderef, providerCalls, nsegs, released,
                   issued, last, mtx>>

\* Lines 171-173: the callback reports the span and the arena adds it to
\* its free space.
t_import_return(t) ==
    /\ ThreadRunning(t)
    /\ pc[t] = "import_return"
    /\ spans' = spans \cup {tl[t].span}
    /\ tl' = [tl EXCEPT ![t].grew = TRUE, ![t].held = <<>>]
    /\ Goto(t, "retry")
    /\ UNCHANGED <<pool, block_size, align, boundary, busoff, psegs, busy,
                   live, mem, halt, nullderef, providerCalls, nsegs, released,
                   issued, last, mtx>>

\* The arena searches once more after the import; the other thread may
\* have run since the span was added.
t_retry(t) ==
    /\ ThreadRunning(t)
    /\ pc[t] = "retry"
    /\ \E a \in {dma_pool_alloc_args} :
       \E fit \in {vmem_xalloc_fit(spans, busy, a.size, a.align, a.nocross,
                                   align)} :
          IF fit # {}
          THEN \E addr \in fit :
               /\ busy' = busy \cup {vmem_busy_tag(addr, a.size, align)}
               /\ tl' = [tl EXCEPT ![t].addr = addr,
                                   ![t].retries = tl[t].retries + 1]
               /\ Goto(t, "find_enter")
          ELSE /\ tl' = [tl EXCEPT ![t].ret = "NULL",
                                   ![t].retries = tl[t].retries + 1]
               /\ Goto(t, "done")
               /\ UNCHANGED busy
    /\ UNCHANGED <<pool, block_size, align, boundary, busoff, psegs, spans,
                   live, mem, halt, nullderef, providerCalls, nsegs, released,
                   issued, last, mtx>>

\* Variant: the lookup of dma_pool_alloc is entered without the mutex.
t_find_enter_unlocked(t) ==
    /\ ThreadRunning(t)
    /\ pc[t] = "find_enter"
    /\ Goto(t, "find")
    /\ UNCHANGED <<pool, block_size, align, boundary, busoff, psegs, spans,
                   busy, live, mem, halt, nullderef, providerCalls, nsegs,
                   released, issued, last, mtx, tl>>

\* Line 278.
t_find_enter(t) == t_mutex_spin_enter(t, "find_enter", "find")

\* dma_pool_find_segment under the mutex, for the address in the thread's
\* locals: lines 279-281 and 319-321.
t_find_segment(t, label, next, addr) ==
    /\ ThreadRunning(t)
    /\ pc[t] = label
    /\ \E f \in {dma_pool_find_segment(psegs, addr)} :
          CASE f.kind = "found" ->
                  /\ tl' = [tl EXCEPT ![t].seg = f.seg]
                  /\ Goto(t, next)
                  /\ UNCHANGED <<halt, nullderef>>
            [] f.kind = "panic" ->
                  /\ halt' = "panic"
                  /\ UNCHANGED <<nullderef, tl, pc>>
            [] f.kind = "null" ->
                  /\ halt' \in NullOutcomes
                  /\ nullderef' = TRUE
                  /\ UNCHANGED <<tl, pc>>
    /\ UNCHANGED <<pool, block_size, align, boundary, busoff, psegs, spans,
                   busy, live, mem, providerCalls, nsegs, released, issued,
                   last, mtx>>

t_find(t) == t_find_segment(t, "find", "find_exit", tl[t].addr)

t_find_exit(t) == t_mutex_spin_exit(t, "find_exit", "finish")

\* Lines 284-297: *handle, the pointer, and the return.
t_finish(t) ==
    /\ ThreadRunning(t)
    /\ pc[t] = "finish"
    /\ \E virt_addr \in {dma_pool_virt_addr(tl[t].seg, tl[t].addr)} :
          /\ tl' = [tl EXCEPT ![t].handle = tl[t].addr, ![t].ptr = virt_addr,
                              ![t].ret = "ok"]
          /\ live' = live \cup {[handle |-> tl[t].addr, ptr |-> virt_addr]}
          /\ issued' = IF \E i \in issued : i.handle = tl[t].addr
                       THEN issued
                       ELSE issued \cup
                            {[handle |-> tl[t].addr, ptr |-> virt_addr]}
    /\ Goto(t, "holding")
    /\ UNCHANGED <<pool, block_size, align, boundary, busoff, psegs, spans,
                   busy, mem, halt, nullderef, providerCalls, nsegs,
                   released, last, mtx>>

\* dma_pool_sync of the block the thread holds, line 318.
t_sync_enter(t) ==
    /\ ~tl[t].synced
    /\ t_mutex_spin_enter(t, "holding", "sync_find")

t_sync_find(t) == t_find_segment(t, "sync_find", "sync_exit", tl[t].handle)

\* Variant: the mutex is kept across bus_dmamap_sync.
t_sync_exit_late(t) ==
    /\ ThreadRunning(t)
    /\ pc[t] = "sync_exit"
    /\ Goto(t, "bus_dmamap_sync")
    /\ UNCHANGED <<pool, block_size, align, boundary, busoff, psegs, spans,
                   busy, live, mem, halt, nullderef, providerCalls, nsegs,
                   released, issued, last, mtx, tl>>

\* Line 322.
t_sync_exit(t) == t_mutex_spin_exit(t, "sync_exit", "bus_dmamap_sync")

\* Line 331, outside the mutex.
t_bus_dmamap_sync(t) ==
    /\ ThreadRunning(t)
    /\ pc[t] = "bus_dmamap_sync"
    /\ tl' = [tl EXCEPT ![t].synced = TRUE]
    /\ Goto(t, "holding")
    /\ UNCHANGED <<pool, block_size, align, boundary, busoff, psegs, spans,
                   busy, live, mem, halt, nullderef, providerCalls, nsegs,
                   released, issued, last, mtx>>

\* dma_pool_free of the block the thread holds, lines 306-311.
t_free(t) ==
    /\ ThreadRunning(t)
    /\ pc[t] = "holding"
    /\ busy' = vmem_xfree(busy, tl[t].handle, block_size, align)
    /\ live' = {b \in live : b.handle # tl[t].handle}
    /\ Goto(t, "done")
    /\ UNCHANGED <<pool, block_size, align, boundary, busoff, psegs, spans,
                   mem, halt, nullderef, providerCalls, nsegs, released,
                   issued, last, mtx, tl>>

NextThreads ==
    \/ Create
    \/ Return
    \/ \E t \in Threads : t_vmem_xalloc(t)
    \/ \E t \in Threads : t_kmem_alloc(t)
    \/ \E t \in Threads : t_bus_dmamap_create(t)
    \/ \E t \in Threads : t_bus_dmamem_alloc(t)
    \/ \E t \in Threads : t_bus_dmamem_map(t)
    \/ \E t \in Threads : t_bus_dmamap_load(t)
    \/ \E t \in Threads : t_err(t)
    \/ \E t \in Threads : t_import_failed(t)
    \/ \E t \in Threads : t_insert_enter(t)
    \/ \E t \in Threads : t_insert(t)
    \/ \E t \in Threads : t_insert_exit(t)
    \/ \E t \in Threads : t_import_return(t)
    \/ \E t \in Threads : t_retry(t)
    \/ \E t \in Threads : t_find_enter(t)
    \/ \E t \in Threads : t_find(t)
    \/ \E t \in Threads : t_find_exit(t)
    \/ \E t \in Threads : t_finish(t)
    \/ \E t \in Threads : t_sync_enter(t)
    \/ \E t \in Threads : t_sync_find(t)
    \/ \E t \in Threads : t_sync_exit(t)
    \/ \E t \in Threads : t_bus_dmamap_sync(t)
    \/ \E t \in Threads : t_free(t)

SpecThreads == Init /\ [][NextThreads]_vars

\* The steps of thread t inside a call, the waits for the mutex apart: the
\* provider calls return, and a thread that can run does run.
ThreadInternal(t) ==
    \/ t_kmem_alloc(t)
    \/ t_bus_dmamap_create(t)
    \/ t_bus_dmamem_alloc(t)
    \/ t_bus_dmamem_map(t)
    \/ t_bus_dmamap_load(t)
    \/ t_err(t)
    \/ t_import_failed(t)
    \/ t_insert(t)
    \/ t_insert_exit(t)
    \/ t_import_return(t)
    \/ t_retry(t)
    \/ t_find(t)
    \/ t_find_exit(t)
    \/ t_finish(t)
    \/ t_sync_find(t)
    \/ t_sync_exit(t)
    \/ t_bus_dmamap_sync(t)

\* Every thread inside a call goes on, and the mutex is fair: a thread
\* that finds it free again and again gets it.
FairThreads ==
    \A t \in Threads :
        /\ WF_vars(ThreadInternal(t))
        /\ SF_vars(t_insert_enter(t))
        /\ SF_vars(t_find_enter(t))

\* The threads under a fair scheduler and a fair mutex.
SpecThreadsFair == SpecThreads /\ FairThreads

(* ---------------------------------------------------------------------- *)
(* dma_pool_create statement by statement.  pool holds the stage reached:  *)
(* "allocated" after kmem_alloc, "arena" after vmem_xcreate, "fields"      *)
(* after the four assignments, "mutex" after mutex_init, "tree" after      *)
(* rb_tree_init, "live" once the pointer has been returned.                *)
(* ---------------------------------------------------------------------- *)

\* The stages at which the pool is the arena's import context and the
\* mutex or the tree is not initialised yet.
RegisteredStages == {"arena", "fields", "mutex"}

\* A statement of dma_pool_create that touches none of the pool's fields
\* the model keeps.
c_step(from, to) ==
    /\ pool = from
    /\ halt = "none"
    /\ pool' = to
    /\ UNCHANGED <<block_size, align, boundary, busoff, psegs, spans, busy,
                   live, mem, halt, nullderef, providerCalls, nsegs,
                   released, issued, last>>
    /\ UNCHANGED tvars

\* Line 220: kmem_alloc of the pool record.
c_kmem_alloc == c_step("none", "allocated")

\* Variant: the arena imports a first segment while it is created.
c_vmem_xcreate_eager ==
    /\ pool = "allocated"
    /\ halt = "none"
    /\ pool' = "arena"
    /\ \E al \in Aligns : align' = al
    /\ spans' = {}
    /\ busy' = {}
    /\ providerCalls' = providerCalls + 1
    /\ UNCHANGED <<block_size, boundary, busoff, psegs, live, mem, halt,
                   nullderef, nsegs, released, issued, last>>
    /\ UNCHANGED tvars

\* Lines 224-226: vmem_xcreate(name, 0, 0, align, &dma_pool_alloc_segment,
\* NULL, pool, ...): an arena with no span, quantum align, and the pool as
\* the argument of its import callback.
c_vmem_xcreate ==
    /\ pool = "allocated"
    /\ halt = "none"
    /\ pool' = "arena"
    /\ \E al \in Aligns : align' = al
    /\ spans' = {}
    /\ busy' = {}
    /\ UNCHANGED <<block_size, boundary, busoff, psegs, live, mem, halt,
                   nullderef, providerCalls, nsegs, released, issued, last>>
    /\ UNCHANGED tvars

\* Lines 230-233: dmat, block_size, align and boundary are stored.
c_fields ==
    /\ pool = "arena"
    /\ halt = "none"
    /\ pool' = "fields"
    /\ \E bs \in BlockSizes, bd \in Boundaries, off \in BusOffsets :
          /\ block_size' = bs
          /\ boundary' = bd
          /\ busoff' = off
    /\ UNCHANGED <<align, psegs, spans, busy, live, mem, halt, nullderef,
                   providerCalls, nsegs, released, issued, last>>
    /\ UNCHANGED tvars

\* Line 235: mutex_init.
c_mutex_init ==
    /\ pool = "fields"
    /\ halt = "none"
    /\ pool' = "mutex"
    /\ mtx' = NoThread
    /\ UNCHANGED <<block_size, align, boundary, busoff, psegs, spans, busy,
                   live, mem, halt, nullderef, providerCalls, nsegs,
                   released, issued, last, pc, tl>>

\* Line 236: rb_tree_init.
c_rb_tree_init ==
    /\ pool = "mutex"
    /\ halt = "none"
    /\ pool' = "tree"
    /\ psegs' = {}
    /\ UNCHANGED <<block_size, align, boundary, busoff, spans, busy, live,
                   mem, halt, nullderef, providerCalls, nsegs, released,
                   issued, last>>
    /\ UNCHANGED tvars

\* Line 238: the pool is returned; only now a caller can pass it on.
c_return ==
    /\ pool = "tree"
    /\ halt = "none"
    /\ pool' = "live"
    /\ last' = [LastNone EXCEPT !.op = "create", !.ret = "ok"]
    /\ UNCHANGED <<block_size, align, boundary, busoff, psegs, spans, busy,
                   live, mem, halt, nullderef, providerCalls, nsegs,
                   released, issued>>
    /\ UNCHANGED tvars

\* The calls of the threads on the pool that was returned to them.
NextCreate ==
    \/ c_kmem_alloc
    \/ c_vmem_xcreate
    \/ c_fields
    \/ c_mutex_init
    \/ c_rb_tree_init
    \/ c_return
    \/ Return
    \/ \E t \in Threads : t_vmem_xalloc(t)
    \/ \E t \in Threads : ThreadInternal(t)
    \/ \E t \in Threads : t_insert_enter(t)
    \/ \E t \in Threads : t_find_enter(t)
    \/ \E t \in Threads : t_sync_enter(t)
    \/ \E t \in Threads : t_free(t)

SpecCreate == Init /\ [][NextCreate]_vars

(* ---------------------------------------------------------------------- *)
(* Properties.                                                             *)
(* ---------------------------------------------------------------------- *)

\* The bus-address range [base, base+length) of a segment: the range it is
\* keyed by and the span the arena was given for it.
InBusRange(n, h) == h >= n.dm_addr /\ h < n.dm_addr + n.dm_len

\* The raw range [dseg.ds_addr, dseg.ds_addr + dseg.ds_len) of a segment.
InRawRange(n, h) == h >= n.dseg_addr /\ h < n.dseg_addr + n.dseg_len

\* The indexed segments whose bus range holds h.
Owners(h) == {n \in psegs : InBusRange(n, h)}

LiveHandles == {b.handle : b \in live}
IssuedHandles == {i.handle : i \in issued}

\* The last call was a dma_pool_alloc / dma_pool_zalloc that returned a block.
Allocated == last.op \in {"alloc", "zalloc"} /\ last.ret = "ok"

\* C1: every handle dma_pool_alloc returned, and that is still held, lies
\* inside the bus-address range of exactly one segment of pool->psegs.
C1_HandleInOneSegment ==
    /\ \A b \in live : Cardinality(Owners(b.handle)) = 1
    /\ Allocated => Cardinality(Owners(last.handle)) = 1

\* C1 witness: two segments are indexed and the block just returned lies in
\* the one created second.
C1_Witness ==
    /\ Allocated
    /\ Cardinality(psegs) = 2
    /\ \E n \in Owners(last.handle) : n.id = 2

\* C2 as claimed: for every pool configuration each held handle is a
\* multiple of block_size away from the base of its segment.
C2_Original ==
    \A b \in live : \A n \in Owners(b.handle) :
        (b.handle - n.dm_addr) % block_size = 0

\* C2, amended: every held handle is a multiple of align, and it is a
\* multiple of block_size away from the base of its segment when
\* block_size is a multiple of align and boundary is 0 or a multiple of
\* block_size.
C2_BlockBoundary ==
    \A b \in live : \A n \in Owners(b.handle) :
        /\ b.handle % align = 0
        /\ (block_size % align = 0 /\ (boundary = 0 \/ boundary % block_size = 0))
               => (b.handle - n.dm_addr) % block_size = 0

\* C2 witness: such a pool holds a block that is not the first of its segment.
C2_Witness ==
    /\ pool = "live"
    /\ block_size % align = 0
    /\ boundary = 0 \/ boundary % block_size = 0
    /\ \E b \in live : \E n \in Owners(b.handle) : b.handle - n.dm_addr > 0

\* C3: every held handle is a multiple of align, and its block
\* [handle, handle + block_size) does not straddle a multiple of boundary
\* when boundary is not 0; and in every state of the pool the arena has at
\* most one address to answer the next reservation with, so that the
\* handles are a function of the operations and the provider's results.
C3_AlignBoundary ==
    /\ \A b \in live :
          /\ b.handle % align = 0
          /\ boundary # 0 =>
                (b.handle \div boundary) =
                ((b.handle + block_size - 1) \div boundary)
    /\ pool = "live" =>
          Cardinality(vmem_xalloc_fit(spans, busy, dma_pool_alloc_args.size,
                                      dma_pool_alloc_args.align,
                                      dma_pool_alloc_args.nocross, align)) <= 1

\* C3 witness: the block just returned was placed past a free, aligned
\* address from which it would have straddled the boundary.
C3_Witness ==
    /\ Allocated
    /\ boundary # 0
    /\ \E st \in FreeBytes(spans, busy) :
          /\ st < last.handle
          /\ st % align = 0
          /\ Range(st, block_size) \subseteq
                 (FreeBytes(spans, busy) \cup Range(last.handle, block_size))
          /\ (st \div boundary) # ((st + block_size - 1) \div boundary)

\* C4: a successful dma_pool_alloc returns the owner's virt_addr plus the
\* distance of the handle from the owner's bus base address; the handle it
\* stores is the address the arena reserved, and the caller holds the pair.
C4_LocalPointer ==
    Allocated =>
        /\ \E n \in psegs :
              /\ InBusRange(n, last.handle)
              /\ last.ptr = n.virt_addr + (last.handle - n.dm_addr)
        /\ \E t \in busy : t.addr = last.handle
        /\ [handle |-> last.handle, ptr |-> last.ptr] \in live

\* C4 witness: the block returned is not the first of a segment whose
\* mapping is at another page than its bus address.
C4_Witness ==
    /\ Allocated
    /\ \E n \in Owners(last.handle) :
          /\ last.handle > n.dm_addr
          /\ n.virt_addr # n.dm_addr

\* C5: after dma_pool_alloc with __GFP_ZERO, and after dma_pool_zalloc
\* with any flags, the block_size bytes at the returned pointer are zero.
C5_ZeroFill ==
    (Allocated /\ (last.zero \/ last.op = "zalloc")) =>
        Range(last.ptr, block_size) \cap mem = {}

\* C5 witness: a block that had been handed out before, and held non-zero
\* bytes when the call was made, is returned by a zeroing allocation.
C5_Witness ==
    /\ Allocated
    /\ last.zero
    /\ last.reused
    /\ last.wasDirty

\* C6: a held block's pointer is the pointer first returned for its handle.
C6_SamePointerOnReuse ==
    \A b \in live : \A i \in issued : i.handle = b.handle => i.ptr = b.ptr

\* C6 witness: a handle that had been freed is returned again, while a
\* second segment exists.
C6_Witness ==
    /\ Allocated
    /\ last.reused
    /\ Cardinality(psegs) = 2

\* No block has been freed and not handed out again, every call of the
\* import callback succeeded, and no call ended in a panic.
FreshRun ==
    /\ pool = "live"
    /\ halt = "none"
    /\ IssuedHandles = LiveHandles
    /\ providerCalls = nsegs

\* Blocks of block_size that go into the provider's granularity G.
BlocksPerPage == PAGE_SIZE \div block_size

\* C7 as claimed: for any pool, floor(G/B) allocations call the provider
\* once and one more allocation calls it a second time.
C7_Original ==
    FreshRun =>
        /\ (Cardinality(live) >= 1 /\ Cardinality(live) <= BlocksPerPage)
               => providerCalls = 1
        /\ Cardinality(live) = BlocksPerPage + 1 => providerCalls = 2

\* C7, amended: when block_size is a multiple of align, at most G, and
\* boundary is 0 or a multiple of block_size, floor(G/B) allocations call
\* the provider once and the next one calls it a second time; and for any
\* pool, no allocation calls the provider while free space can satisfy it.
C7_LazyGrowth ==
    /\ (/\ FreshRun
        /\ block_size % align = 0
        /\ block_size <= PAGE_SIZE
        /\ boundary = 0 \/ boundary % block_size = 0)
         =>
        /\ (Cardinality(live) >= 1 /\ Cardinality(live) <= BlocksPerPage)
               => providerCalls = 1
        /\ Cardinality(live) = BlocksPerPage + 1 => providerCalls = 2
    /\ (last.op \in {"alloc", "zalloc"} /\ last.calls > 0) => ~last.fit

\* C7 witness: such a pool has handed out floor(G/B) + 1 blocks, the last
\* of them after a second provider call.
C7_Witness ==
    /\ FreshRun
    /\ block_size % align = 0
    /\ boundary = 0 \/ boundary % block_size = 0
    /\ Allocated
    /\ last.calls = 1
    /\ Cardinality(live) = BlocksPerPage + 1
    /\ providerCalls = 2

\* How often segment id has been handed to dma_pool_free_segment.
ReleaseCount(id) == Cardinality({k \in 1 .. Len(released) : released[k] = id})

\* C8: once dma_pool_destroy has run, every segment the pool created has
\* been released to the host exactly once, and nothing else has.
C8_DestroyReleasesAll ==
    pool = "destroyed" =>
        /\ \A id \in 1 .. nsegs : ReleaseCount(id) = 1
        /\ Len(released) = nsegs

\* C8 witness: a pool that grew to two segments is destroyed while it
\* still has a block handed out.
C8_Witness ==
    /\ pool = "destroyed"
    /\ nsegs = 2
    /\ last.op = "destroy"
    /\ Len(released) = 2

\* C9: dma_pool_sync with a handle no caller holds (foreign, already
\* freed, or not the start of a block) panics and never calls
\* bus_dmamap_sync.
C9_Original ==
    (last.op = "sync" /\ last.handle \notin LiveHandles) =>
        /\ last.ret = "panic"
        /\ halt = "panic"

\* What the lookup does decide: a handle that lies in no indexed segment's
\* range, while some segment's base is at or below it, ends in the explicit
\* panic; a handle inside an indexed segment is synchronized whether or not
\* it is a held block.
SyncRangeCheck ==
    last.op = "sync" =>
        /\ (/\ \E n \in psegs : n.dm_addr <= last.handle
            /\ \A n \in psegs : ~InBusRange(n, last.handle)
            /\ \A n \in psegs : ~InRawRange(n, last.handle))
             => (last.ret = "panic" /\ halt = "panic")
        /\ (\E n \in psegs : InBusRange(n, last.handle) /\ InRawRange(n, last.handle))
             => (last.ret = "synced" /\ halt = "none")

\* C15: dma_pool_create never hands back a usable pool whose align is not a
\* power of two.
C15_Claim ==
    pool = "live" => powerof2(align)

\* C16: right after dma_pool_create the segment index is empty, the arena
\* has no space at all and the provider has not been called; the
\* provider is called only inside dma_pool_alloc / dma_pool_zalloc.
C16_EmptyAfterCreate ==
    [][/\ (last'.op = "create" /\ last'.ret = "ok") =>
              /\ psegs' = {}
              /\ spans' = {}
              /\ busy' = {}
              /\ providerCalls' = 0
              /\ nsegs' = 0
       /\ providerCalls' # providerCalls =>
              (last'.op \in {"alloc", "zalloc"} /\ last'.calls = 1)]_vars

\* C16 witness: the first allocation from a pool that was created empty
\* called the provider.
C16_Witness ==
    /\ Allocated
    /\ last.calls = 1
    /\ providerCalls = 1
    /\ Cardinality(psegs) = 1

\* C17: dma_pool_free hands the block at handle, and nothing else, back to
\* the arena: the range [handle, handle + block_size) is free afterwards,
\* every other allocated range stays allocated, the segment index and the
\* arena's spans are unchanged, no segment is released to the host, and
\* the memory contents are not modified.
C17_FreeFrame ==
    [][last'.op = "free" =>
          /\ \E t \in busy :
                 /\ t.addr = last'.handle
                 /\ busy' = busy \ {t}
          /\ Range(last'.handle, block_size) \subseteq FreeBytes(spans', busy')
          /\ psegs' = psegs
          /\ spans' = spans
          /\ released' = released
          /\ nsegs' = nsegs
          /\ mem' = mem]_vars

\* C17 witness: a block that holds non-zero bytes was freed in a pool of
\* two segments while another block stays held.
C17_Witness ==
    /\ last.op = "free"
    /\ Cardinality(psegs) = 2
    /\ live # {}
    /\ Range(last.ptr, block_size) \cap mem # {}

\* The number of bytes of the arena that are free.
FreeCount(sp, bz) == Cardinality(FreeBytes(sp, bz))

C19_IndexGrows ==
    [][(pool = "live" /\ pool' = "live") => psegs \subseteq psegs']_vars

\* C19 witness: a lookup by dma_pool_sync finds the first of two segments
\* after a block has been freed.
C19_Witness ==
    /\ last.op = "sync"
    /\ last.ret = "synced"
    /\ last.segid = 1
    /\ Cardinality(psegs) = 2
    /\ IssuedHandles # LiveHandles

\* C20: the ranges of the indexed segments are pairwise disjoint, every
\* byte the arena tracks lies in the range of an indexed segment, and the
\* allocated ranges lie in the arena's spans.
C20_DisjointCover ==
    /\ \A n \in psegs : \A m \in psegs :
          n # m => /\ ~Overlap(n.dm_addr, n.dm_len, m.dm_addr, m.dm_len)
                   /\ ~Overlap(n.dseg_addr, n.dseg_len,
                               m.dseg_addr, m.dseg_len)
    /\ \A sp \in spans : \E n \in psegs :
          sp.addr >= n.dm_addr /\ sp.addr + sp.size <= n.dm_addr + n.dm_len
    /\ \A t \in busy : \E sp \in spans :
          t.addr >= sp.addr /\ t.addr + t.size <= sp.addr + sp.size

\* C20 witness: two segments are indexed, with allocated and free bytes.
C20_Witness ==
    /\ Cardinality(psegs) = 2
    /\ busy # {}
    /\ FreeBytes(spans, busy) # {}

\* The last call was a dma_pool_alloc / dma_pool_zalloc.
AllocCall == last.op \in {"alloc", "zalloc"}

\* C11 as claimed: an allocation whose flags do not permit sleeping fails
\* at once, without waiting, when growing the pool would block.
C11_Original ==
    (AllocCall /\ last.nowait /\ last.mustwait) =>
        (~last.slept /\ last.ret = "NULL")

\* C11, amended: whatever the caller's flags, an allocation that has to
\* grow the pool waits when the provider has to wait, and then goes on
\* with the provider's answer; it waits only inside a provider call.
C11_AlwaysSleeps ==
    AllocCall =>
        /\ last.mustwait => last.slept
        /\ last.slept => (last.mustwait /\ last.calls = 1)

\* C11 witness: a caller that did not permit sleeping waited for the
\* provider and got its block from the new segment.
C11_Witness ==
    /\ Allocated
    /\ last.nowait
    /\ last.mustwait
    /\ last.slept
    /\ last.grew

\* The boundary leaves room for a block of the pool.
BoundaryFitsBlock == boundary = 0 \/ boundary >= roundup(block_size, align)

\* C12 as claimed, on pools whose boundary leaves room for a block: a
\* dma_pool_alloc that returns NULL leaves the segment index, the held
\* blocks and the arena as they were, and does not write *handle.
C12_Original ==
    [][(last'.op \in {"alloc", "zalloc"} /\ last'.ret = "NULL"
        /\ BoundaryFitsBlock) =>
          /\ psegs' = psegs
          /\ live' = live
          /\ spans' = spans
          /\ busy' = busy
          /\ ~last'.hset]_vars

\* C12, amended: a dma_pool_alloc that returns NULL leaves the held
\* blocks and the arena's allocated ranges as they were and does not write
\* *handle; when the provider failed, the segment index and the free space
\* are unchanged too; when the provider succeeded but the new segment has
\* no room that meets align and boundary, the new segment stays indexed
\* and its range stays in the arena's free space.
C12_FailedAlloc ==
    [][(last'.op \in {"alloc", "zalloc"} /\ last'.ret = "NULL") =>
          /\ live' = live
          /\ busy' = busy
          /\ ~last'.hset
          /\ ~last'.grew => (psegs' = psegs /\ spans' = spans /\ mem' = mem
                              /\ nsegs' = nsegs)
          /\ last'.grew =>
                 /\ psegs \subseteq psegs'
                 /\ Cardinality(psegs') = Cardinality(psegs) + 1
                 /\ \E n \in psegs' \ psegs :
                        spans' = spans \cup
                                 {[addr |-> n.dm_addr, size |-> n.dm_len]}]_vars

\* C12 witness: the provider failed under a pool that has a segment and a
\* held block, and NULL was returned.
C12_Witness ==
    /\ AllocCall
    /\ last.ret = "NULL"
    /\ last.calls = 1
    /\ ~last.grew
    /\ psegs # {}
    /\ live # {}

\* C10: a lookup that finds no segment at or below the address
\* ends in the explicit panic and never reads a field of a segment that
\* does not exist.
C10_Claim ==
    /\ ~nullderef
    /\ (last.op = "sync" /\ \A n \in psegs : n.dm_addr > last.handle)
           => (last.ret = "panic" /\ halt = "panic")


\* C13: a thread that is inside a call of the backing store (the kmem
\* allocation of the segment record, bus_dmamap_create, bus_dmamem_alloc,
\* bus_dmamem_map, bus_dmamap_load) does not hold pool->mtx; a thread holds
\* it exactly while it is at the index insertion or at an index lookup.
C13_MutexNotHeldInProvider ==
    \A t \in Threads :
        /\ pc[t] \in ProviderLabels => mtx # t
        /\ mtx = t <=> pc[t] \in LockedLabels

\* C13 witness: one thread is inside bus_dmamem_alloc while the other is
\* inserting its segment under the mutex.
C13_Witness ==
    \E t, u \in Threads :
        /\ pc[t] = "bus_dmamem_alloc"
        /\ pc[u] = "insert"
        /\ mtx = u

\* The labels of a growing thread after rb_tree_insert_node.
AfterInsert ==
    {"insert_exit", "import_return", "retry", "find_enter", "find",
     "find_exit", "finish", "holding", "sync_find", "sync_exit",
     "bus_dmamap_sync", "done"}

\* Thread t found no free space, and its calls of the backing store have
\* all succeeded.
GrowthDone(t) ==
    /\ tl[t].tried
    /\ tl[t].pseg # NoSeg
    /\ pc[t] \in {"insert_enter", "insert"} \cup AfterInsert

\* Thread t has a block from dma_pool_alloc and has not freed it.
HoldsBlock(t) == tl[t].ret = "ok" /\ pc[t] # "done"

\* The block thread t got is aligned and lies inside one indexed segment.
ValidBlock(t) ==
    /\ tl[t].handle % align = 0
    /\ \E n \in psegs :
          /\ InBusRange(n, tl[t].handle)
          /\ InBusRange(n, tl[t].handle + block_size - 1)

\* C14: when both threads find the free space exhausted and the backing
\* store gives each of them a segment, both segments are in pool->psegs once
\* inserted and none is handed back or left outside the tree, both calls
\* return, each a valid block, and the two blocks held at the same time do
\* not overlap.
C14_Claim ==
    (\A t \in Threads : GrowthDone(t)) =>
        /\ halt = "none"
        /\ released = <<>>
        /\ \A t \in Threads : pc[t] \in AfterInsert => tl[t].pseg \in psegs
        /\ (\A t \in Threads : pc[t] \in AfterInsert) =>
               Cardinality(psegs) = nsegs
        /\ \A t \in Threads :
              tl[t].ret # "" => (tl[t].ret = "ok" /\ ValidBlock(t))
        /\ \A t, u \in Threads :
              (t # u /\ HoldsBlock(t) /\ HoldsBlock(u)) =>
                  ~Overlap(tl[t].handle, block_size, tl[u].handle, block_size)

\* C21: a call that imports a segment whose bus-address range overlaps a
\* segment already in pool->psegs (the same base included) stops the kernel:
\* the segment is neither inserted nor dropped with the call carrying on.
C21_Claim ==
    [][(/\ last'.op \in {"alloc", "zalloc"}
        /\ last'.grew
        /\ \E n \in psegs :
              Overlap(last'.span.addr, last'.span.size, n.dm_addr, n.dm_len))
       => halt' # "none"]_vars

\* C22: dma_pool_free with a handle that lies in no segment of pool->psegs
\* stops the kernel and leaves the arena's busy tags as they were.
C22_Claim ==
    [][(last'.op = "free" /\ Owners(last'.handle) = {})
       => (halt' # "none" /\ busy' = busy)]_vars

C23_SyncArguments ==
    [][(last'.op = "sync" /\ last'.handle \in LiveHandles) =>
          /\ halt' = "none"
          /\ last'.ret = "synced"
          /\ last'.syncs = 1
          /\ \E n \in psegs :
                /\ InBusRange(n, last'.handle)
                /\ last'.segid = n.id
                /\ last'.offset = last'.handle - n.dm_addr
          /\ last'.len = block_size
          /\ last'.syncops = last'.ops]_vars

\* C23 witness: a held block that is not the first of its segment has been
\* synchronized with PREREAD and POSTREAD in one call.
C23_Witness ==
    /\ last.op = "sync"
    /\ last.ret = "synced"
    /\ last.handle \in LiveHandles
    /\ last.offset > 0
    /\ last.syncops = {"PREREAD", "POSTREAD"}

\* The statements that take pool->mtx.
EnterLabels == {"insert_enter", "find_enter"}

\* C24: a thread that is at the bus_dmamap_sync call of dma_pool_sync has
\* released pool->mtx, and the other thread, when it is about to take the
\* mutex for its own insertion or lookup, finds it free.
C24_SyncOutsideMutex ==
    \A t \in Threads :
        pc[t] = "bus_dmamap_sync" =>
            /\ mtx # t
            /\ \A u \in Threads \ {t} :
                  (pc[u] \in EnterLabels \/ pc[u] = "holding") =>
                      mtx = NoThread

\* C24 witness: one thread is at bus_dmamap_sync while the other holds the
\* mutex for the lookup of its allocation.
C24_Witness ==
    \E t, u \in Threads :
        /\ pc[t] = "bus_dmamap_sync"
        /\ pc[u] = "find"
        /\ mtx = u

\* The release call that gives back what an acquisition made.
ReleaseOf(what) ==
    CASE what = "pseg" -> "kmem_free"
      [] what = "dmam" -> "bus_dmamap_destroy"
      [] what = "dseg" -> "bus_dmamem_free"
      [] what = "kva" -> "bus_dmamem_unmap"
      [] what = "load" -> "bus_dmamap_unload"

\* The releases of everything in held, each once, last acquired first.
ReverseReleases(held) ==
    [i \in 1 .. Len(held) |->
        Release(ReleaseOf(held[Len(held) + 1 - i]), held[Len(held) + 1 - i])]

\* C25: when a provider call fails inside dma_pool_alloc_segment, the
\* function releases exactly what it had acquired before the failing step,
\* each resource once and in reverse order of acquisition; no step of the
\* function on that path changes the segment index, the arena's spans or
\* its reservations, the failed segment is not in the index and no span is
\* reported, and dma_pool_alloc then returns NULL.
C25_Claim ==
    [][\A t \in Threads :
         /\ (pc[t] \in ProviderLabels \cup {"err", "import_failed"}
                /\ pc'[t] # pc[t]
                /\ pc'[t] \in ProviderLabels \cup
                               {"err", "import_failed", "done"})
               => (psegs' = psegs /\ spans' = spans /\ busy' = busy)
         /\ (pc[t] # "import_failed" /\ pc'[t] = "import_failed")
               => /\ tl'[t].undo = ReverseReleases(tl[t].held)
                  /\ tl'[t].pseg \notin psegs'
                  /\ tl'[t].span = NoSpan
                  /\ ~tl'[t].grew
         /\ (pc[t] = "import_failed" /\ pc'[t] # pc[t])
               => (pc'[t] = "done" /\ tl'[t].ret = "NULL")]_vars

\* The positions in steps of the calls made on segments.
SegmentSteps(steps) ==
    {i \in 1 .. Len(steps) : steps[i].call = "dma_pool_free_segment"}

\* C26: dma_pool_destroy releases every indexed segment to the host, each
\* once, and only then discards the mutex, the arena and the pool record;
\* after it no segment the pool created remains unreleased. A pool with no
\* segments is the case of no release before the bookkeeping.
C26_DestroyReleasesThenDiscards ==
    [][last'.op = "destroy" =>
         LET steps == last'.steps
             k == Cardinality(psegs)
         IN  /\ Len(steps) = k + Len(DestroyBookkeeping)
             /\ SegmentSteps(steps) = 1 .. k
             /\ {steps[i].id : i \in 1 .. k} = {n.id : n \in psegs}
             /\ SubSeq(steps, k + 1, Len(steps)) = DestroyBookkeeping
             /\ \A id \in 1 .. nsegs' :
                   Cardinality({i \in 1 .. Len(released') :
                                   released'[i] = id}) = 1
             /\ psegs' = {}
             /\ pool' = "destroyed"]_vars

\* C26 witness: a pool with two segments was destroyed.
C26_Witness ==
    /\ last.op = "destroy"
    /\ Cardinality(SegmentSteps(last.steps)) = 2
    /\ nsegs = 2
    /\ Len(released) = 2

\* The pool of the scenario: no boundary, block_size equal to align and
\* dividing the host's page size.
ScenarioPool ==
    /\ pool = "live"
    /\ boundary = 0
    /\ block_size = align
    /\ PAGE_SIZE % block_size = 0

\* The handles of the blocks in set.
HandlesOf(set) == {b.handle : b \in set}

\* C27: in a fresh pool with boundary 0 and block_size equal to align and
\* dividing the page size, the first allocation (the host giving memory)
\* returns the base of the first segment, the second returns that base
\* plus block_size from the same segment, and after the first block is
\* freed the next allocation returns the first handle again; the second
\* and the third make no provider call.
C27_Claim ==
    [][(ScenarioPool /\ last'.op \in {"alloc", "zalloc"}) =>
         /\ (psegs = {} /\ issued = {} /\ last'.grew)
               => /\ last'.ret = "ok"
                  /\ \E n \in psegs' :
                        /\ psegs' = {n}
                        /\ last'.handle = dma_pool_segment_phys_addr(n)
                        /\ last'.segid = n.id
         /\ \A n \in psegs :
               LET base == dma_pool_segment_phys_addr(n)
               IN  /\ (psegs = {n} /\ HandlesOf(live) = {base}
                         /\ HandlesOf(issued) = {base})
                        => /\ last'.ret = "ok"
                           /\ last'.handle = base + block_size
                           /\ last'.segid = n.id
                           /\ last'.calls = 0
                           /\ psegs' = psegs
                   /\ (psegs = {n} /\ HandlesOf(live) = {base + block_size}
                         /\ HandlesOf(issued) = {base, base + block_size})
                        => /\ last'.ret = "ok"
                           /\ last'.handle = base
                           /\ last'.segid = n.id
                           /\ last'.calls = 0
                           /\ psegs' = psegs]_vars

\* The labels of an allocation after the arena searched again.
AfterRetry == {"find_enter", "find", "find_exit", "finish", "holding",
               "sync_find", "sync_exit", "bus_dmamap_sync", "done"}

\* C28: an allocation that finds no free space calls the import callback
\* once, the callback asks the host for one segment, the whole range of
\* that segment is added to the arena's free space, and the arena searches
\* again exactly once, whatever another thread took in between.
C28_OneSegmentOneRetry ==
    /\ \A t \in Threads :
         /\ tl[t].imports <= 1
         /\ tl[t].retries <= 1
         /\ tl[t].retries = 1 => tl[t].grew
         /\ tl[t].grew =>
               /\ tl[t].imports = 1
               /\ tl[t].span = [addr |-> tl[t].pseg.dm_addr,
                                 size |-> tl[t].pseg.dm_len]
               /\ tl[t].span \in spans
               /\ tl[t].pseg \in psegs
         /\ (tl[t].grew /\ pc[t] \in AfterRetry) => tl[t].retries = 1
    /\ nsegs <= Cardinality({t \in Threads : tl[t].imports = 1})
    /\ Cardinality(psegs) <= nsegs
    /\ spans = {tl[t].span : t \in {u \in Threads : tl[u].grew}}

\* C28 witness: a thread imported a segment, another thread took the only
\* block of it before the retry, and the one retry failed.
C28_Witness ==
    \E t \in Threads : \E u \in Threads \ {t} :
        /\ tl[t].grew
        /\ tl[t].retries = 1
        /\ tl[t].ret = "NULL"
        /\ pc[t] = "done"
        /\ tl[u].ret = "ok"
        /\ tl[u].handle = tl[t].span.addr
        /\ Cardinality(psegs) = 1

\* C29: the size dma_pool_alloc_segment asks the host for is the smallest
\* multiple of the page size that is at least the size the arena asked
\* for, and on success the span it reports is the loaded map's address and
\* length of the one segment whose record it inserted.
C29_PageMultipleAndSpan ==
    [][(last'.op \in {"alloc", "zalloc"} /\ last'.grew) =>
         \E n \in psegs' \ psegs :
             /\ psegs' = psegs \cup {n}
             /\ n.size % PAGE_SIZE = 0
             /\ n.size >= last'.asked
             /\ n.size - PAGE_SIZE < last'.asked
             /\ n.dseg_len = n.size
             /\ last'.span = [addr |-> n.dm_addr, size |-> n.dm_len]
             /\ last'.span \in spans']_vars

\* C29 witness: the arena asked for less than a page, the host gave one
\* page, loaded at a bus address that is not the memory's own address.
C29_Witness ==
    /\ last.op \in {"alloc", "zalloc"}
    /\ last.grew
    /\ last.asked > 0
    /\ last.asked % PAGE_SIZE # 0
    /\ last.span.size = PAGE_SIZE
    /\ \E n \in psegs :
          /\ n.dm_addr = last.span.addr
          /\ n.dm_addr # n.dseg_addr

\* C34: the containment test of dma_pool_find_segment uses the base and
\* the length the tree is keyed by and the arena was given, so for every
\* address inside a span of the arena the floor lookup followed by the
\* test finds the segment that holds the address, whatever the offset
\* between the memory's own address and the loaded bus address.
C34_Claim ==
    pool = "live" =>
        \A sp \in spans : \A addr \in Range(sp.addr, sp.size) :
            /\ dma_pool_find_segment(psegs, addr).kind = "found"
            /\ InBusRange(dma_pool_find_segment(psegs, addr).seg, addr)

\* The segments of the index whose loaded range is exactly span sp.
SpanSegments(sp) ==
    {n \in psegs : n.dm_addr = sp.addr /\ n.dm_len = sp.size}

\* C33: a segment is in the index before its range is in the arena, so in
\* every interleaving of the threads each span of the arena has its
\* segment indexed and the lookup of dma_pool_alloc for the address the
\* arena returned finds the segment holding it, not the panic.
C33_Claim ==
    /\ \A sp \in spans : SpanSegments(sp) # {}
    /\ \A t \in Threads :
          pc[t] = "find" =>
              /\ dma_pool_find_segment(psegs, tl[t].addr).kind = "found"
              /\ InBusRange(dma_pool_find_segment(psegs, tl[t].addr).seg,
                            tl[t].addr)

\* C31: in every interleaving of the threads' allocations and frees, two
\* different live blocks share no byte of bus address space and no byte of
\* local memory, and no two live blocks have the same handle.
C31_LiveBlocksDisjoint ==
    \A b1 \in live : \A b2 \in live \ {b1} :
        /\ b1.handle # b2.handle
        /\ ~Overlap(b1.handle, block_size, b2.handle, block_size)
        /\ ~Overlap(b1.ptr, block_size, b2.ptr, block_size)

\* C31 witness: both threads hold a block of the same segment, after the
\* segment's first block was allocated by one of them.
C31_Witness ==
    /\ Cardinality(live) = 2
    /\ Cardinality(psegs) = 1
    /\ \A t \in Threads : HoldsBlock(t) /\ pc[t] = "holding"
    /\ \E t \in Threads : tl[t].grew

\* C32: every held block has an owning segment and lies inside it, in bus
\* addresses and in local memory, so the bytes a zeroing allocation clears
\* are bytes of the segment's mapping, and the range dma_pool_sync gives to
\* bus_dmamap_sync for a held block ends inside the segment.
C32_BlockInsideSegment ==
    /\ \A b \in live :
          /\ Owners(b.handle) # {}
          /\ \A n \in Owners(b.handle) :
                /\ b.handle + block_size <= n.dm_addr + n.dm_len
                /\ dma_pool_alloc_memset({"__GFP_ZERO"}, b.ptr) \subseteq
                       Range(n.virt_addr, n.size)
    /\ (last.op = "sync" /\ last.ret = "synced"
          /\ last.handle \in LiveHandles) =>
             \A n \in psegs :
                 n.id = last.segid =>
                     /\ last.offset >= 0
                     /\ last.offset + last.len <= n.size

\* C32 witness: the last block of a segment is held and was synchronized,
\* the range ending exactly at the end of the segment.
C32_Witness ==
    /\ last.op = "sync"
    /\ last.ret = "synced"
    /\ last.handle \in LiveHandles
    /\ last.offset > 0
    /\ \E n \in psegs :
          /\ n.id = last.segid
          /\ last.offset + last.len = n.size

\* The labels at which a thread is about to read or write the index.
IndexLabels == {"insert", "find", "sync_find"}

\* The labels a thread is at when dma_pool_alloc_segment, dma_pool_alloc or
\* dma_pool_sync has returned to its caller.
ReturnLabels == {"import_return", "import_failed", "holding", "done"}

\* C35: a thread enters dma_pool_find_segment, and reads or writes the
\* index, only while it holds pool->mtx; the index changes only in a step
\* of the thread holding the mutex at rb_tree_insert_node; and when
\* dma_pool_alloc_segment, dma_pool_alloc or dma_pool_sync returns, the
\* thread does not hold the mutex.
C35_IndexUnderMutex ==
    [][/\ \A t \in Threads :
            /\ pc'[t] \in IndexLabels => mtx' = t
            /\ pc[t] \in IndexLabels => mtx = t
            /\ (pc'[t] \in ReturnLabels /\ pc'[t] # pc[t]) => mtx' # t
       /\ psegs' # psegs =>
             \E t \in Threads :
                 /\ mtx = t
                 /\ pc[t] = "insert"
                 /\ pc'[t] = "insert_exit"]_vars

\* C35 witness: a thread is inside the lookup of dma_pool_sync with the
\* mutex while the other waits to insert its segment.
C35_Witness ==
    \E t \in Threads : \E u \in Threads \ {t} :
        /\ pc[t] = "sync_find"
        /\ mtx = t
        /\ pc[u] = "insert_enter"
        /\ psegs # {}

\* The labels of a thread inside dma_pool_alloc or dma_pool_sync.
InCallLabels ==
    ProviderLabels \cup
    {"err", "import_failed", "insert_enter", "insert", "insert_exit",
     "import_return", "retry", "find_enter", "find", "find_exit", "finish",
     "sync_find", "sync_exit", "bus_dmamap_sync"}

\* C36: under a fair scheduler and a fair mutex, with provider calls that
\* return, every thread that holds pool->mtx releases it and every thread
\* inside dma_pool_alloc or dma_pool_sync gets to the return of its call.
C36_Claim ==
    \A t \in Threads :
        /\ (mtx = t) ~> (mtx # t)
        /\ (pc[t] \in InCallLabels) ~> (pc[t] \in {"holding", "done"})

\* The local memory of the segments a step adds to the index.
NewSegmentBytes ==
    UNION {Range(n.virt_addr, n.size) : n \in psegs' \ psegs}

\* C37: an allocation without __GFP_ZERO writes no byte; one with
\* __GFP_ZERO leaves the block_size bytes of the returned block zero and
\* writes no other byte; the bytes of the blocks held before, the bytes
\* outside the block, and the rest of a segment the call imported are as
\* they were.
C37_AllocFrame ==
    [][last'.op \in {"alloc", "zalloc"} =>
         LET blk == IF last'.ret = "ok" /\ last'.zero
                    THEN Range(last'.ptr, block_size) ELSE {}
         IN  /\ mem' \cap blk = {}
             /\ mem' \ (blk \cup NewSegmentBytes) =
                    mem \ (blk \cup NewSegmentBytes)
             /\ NewSegmentBytes \ blk \subseteq mem'
             /\ \A b \in live :
                   Range(b.ptr, block_size) \cap mem' =
                   Range(b.ptr, block_size) \cap mem]_vars

\* C37 witness: a zeroing allocation reused a block that held data, next
\* to a held block whose data stayed.
C37_Witness ==
    /\ last.op \in {"alloc", "zalloc"}
    /\ last.ret = "ok"
    /\ last.zero
    /\ last.wasDirty
    /\ last.calls = 0
    /\ \E b \in live :
          /\ b.ptr = last.ptr + block_size
          /\ Range(b.ptr, block_size) \subseteq mem

\* A thread is inside the import callback dma_pool_alloc_segment.
InCallback(t) ==
    pc[t] \in ProviderLabels \cup
              {"err", "insert_enter", "insert", "insert_exit"}

\* C38: dma_pool_create makes the pool the arena's import context before
\* it initialises the mutex and the tree, and the import callback runs
\* only on a pool whose mutex and tree are initialised: while the pool is
\* registered and not yet returned the arena has no span, the provider has
\* not been called and no thread is inside a call on the pool.
C38_NoImportBeforeInit ==
    /\ pool \in RegisteredStages \cup {"tree"} =>
          /\ spans = {}
          /\ providerCalls = 0
          /\ nsegs = 0
          /\ \A t \in Threads : pc[t] = "idle"
    /\ \A t \in Threads : InCallback(t) => pool = "live"
    /\ providerCalls > 0 => pool = "live"

\* C38 witness: the pool was registered with the arena before its mutex
\* was initialised, and later a thread is inside the callback, about to
\* take the mutex for its insertion.
C38_Witness ==
    /\ pool = "live"
    /\ providerCalls = 1
    /\ \E t \in Threads : pc[t] = "insert_enter"

====
